---- MODULE Spec2Model ----
(***************************************************************************)
(* Flat-file issue tracker (src/app.py): the CSV record store, the issue,  *)
(* user, comment, history and attachment repositories built on it, the     *)
(* issue listing with its status-sync, and the before-request role         *)
(* resolver.                                                               *)
(*                                                                         *)
(* Representation of the CSV values.  Every CSV cell is a string.          *)
(*  - ids, status, role, priority, zone, file names: TLA+ strings;         *)
(*  - timestamps (dateLogged, dateClosed, lastModified, dueDate,           *)
(*    timestamp): strings, "" or an ISO string isoformat(n) = "T<n>" of    *)
(*    the instant n, or a text that fromisoformat rejects;                 *)
(*  - free text (hospitalUnit, category, taskName, description, owners,   *)
(*    names, e-mails): sequences of one-character strings, so that         *)
(*    startswith / endswith / split / substring / lower are computed       *)
(*    (the empty string is << >>).                                         *)
(***************************************************************************)
EXTENDS Integers, Sequences, FiniteSets, TLC

\* ------------------------------------------------------------------ bounds
MaxIssues == 2      \* create_issue is enabled while fewer issues are stored
MaxComments == 1    \* comments stored, over all issues
MaxAttach == 1      \* attachment records stored, over all issues
MaxClock == 2       \* instants datetime.now() can return
MaxImported == 2    \* issues in an imported issues.csv

\* ------------------------------------------------------- generic helpers
Range(s) == {s[i] : i \in 1..Len(s)}

Max(S) == CHOOSE m \in S : \A x \in S : x <= m

\* str(n) for the small naturals the model reaches
NumStr == <<"1", "2", "3", "4", "5", "6", "7", "8", "9">>

str(n) == IF n = 0 THEN "0" ELSE NumStr[n]

\* str.isdigit() on the id strings of the model
isdigit(s) == \E n \in 0..9 : str(n) = s

\* int(s) for a string with isdigit(s)
int(s) == CHOOSE n \in 0..9 : str(n) = s

\* datetime.isoformat() of the instant n
IsoStr == <<"T1", "T2", "T3", "T4", "T5", "T6">>

isoformat(n) == IsoStr[n]

\* datetime.fromisoformat succeeds on s
parses(s) == \E n \in 1..Len(IsoStr) : IsoStr[n] = s

fromisoformat(s) == CHOOSE n \in 1..Len(IsoStr) : IsoStr[n] = s

\* str.lower() on one character, and on a character sequence
lowerChar(ch) == CASE ch = "A" -> "a" [] ch = "B" -> "b" [] ch = "H" -> "h" [] OTHER -> ch

lower(s) == [i \in 1..Len(s) |-> lowerChar(s[i])]

\* the characters str.strip() removes (of those the model uses)
Whitespace == {" ", "\n", "\r"}

\* s.strip(): leading and trailing whitespace removed
RECURSIVE lstrip(_)
lstrip(s) == IF s # << >> /\ Head(s) \in Whitespace THEN lstrip(Tail(s)) ELSE s

RECURSIVE rstrip(_)
rstrip(s) == IF s # << >> /\ s[Len(s)] \in Whitespace THEN rstrip(SubSeq(s, 1, Len(s) - 1)) ELSE s

strip(s) == rstrip(lstrip(s))

\* s.endswith(p)
endswith(s, p) == Len(p) <= Len(s) /\ SubSeq(s, Len(s) - Len(p) + 1, Len(s)) = p

\* s.split(sep)[0]: the characters before the first sep (all of s without one)
RECURSIVE split_first(_, _)
split_first(s, sep) == IF s = << >> \/ Head(s) = sep THEN << >> ELSE <<Head(s)>> \o split_first(Tail(s), sep)

\* s.split(sep): the list of the pieces between the separators
RECURSIVE split(_, _)
split(s, sep) ==
    LET h == split_first(s, sep)
    IN IF Len(h) = Len(s) THEN <<h>> ELSE <<h>> \o split(SubSeq(s, Len(h) + 2, Len(s)), sep)

\* sep.join(parts)
RECURSIVE join(_, _)
join(parts, sep) ==
    IF parts = << >> THEN << >>
    ELSE IF Len(parts) = 1 THEN parts[1]
    ELSE parts[1] \o <<sep>> \o join(Tail(parts), sep)

\* s.startswith(p)
startswith(s, p) == Len(p) <= Len(s) /\ SubSeq(s, 1, Len(p)) = p

\* p in s (substring)
contains(s, p) == \E i \in 0..(Len(s) - Len(p)) : SubSeq(s, i + 1, i + Len(p)) = p

\* ---------------------------------------------------------------- schemas
ISSUES_HEADERS == {"id", "hospitalUnit", "zone", "priority", "category", "taskName", "description", "mainOwner", "coOwners", "dueDate", "status", "dateLogged", "dateClosed", "createdBy", "lastModified", "lastModifiedBy", "resolvedBy", "stepsTaken", "reviewNotes"}

USERS_HEADERS == {"id", "email", "name", "role", "googleChatWebhookUrl"}

COMMENTS_HEADERS == {"id", "text", "authorName", "authorEmail", "timestamp"}

HISTORY_HEADERS == {"id", "user", "action", "timestamp"}

ATTACHMENTS_HEADERS == {"id", "fileName", "downloadURL", "uploadedBy", "timestamp"}

\* free-text fields, held as character sequences
SeqFields == {"hospitalUnit", "action", "category", "taskName", "description", "mainOwner", "coOwners", "createdBy", "lastModifiedBy", "email", "name", "text", "authorName", "authorEmail", "user", "uploadedBy"}

\* the empty string, in the representation of field h
EmptyOf(h) == IF h \in SeqFields THEN << >> ELSE ""

\* ------------------------------------------------------------ record store
\* csv.DictWriter over the rows: exactly the header fields, a missing field
\* written as the empty string, fields outside the header dropped; read_csv
\* of the file gives these rows back.
write_csv(data, headers) ==
    [i \in 1..Len(data) |-> [h \in headers |-> IF h \in DOMAIN data[i] THEN data[i][h] ELSE EmptyOf(h)]]

\* row.get(field) is truthy
truthy(row, field) == field \in DOMAIN row /\ row[field] # EmptyOf(field)

\* the integer ids of the rows whose id is non-empty and all digits
numeric_ids(data) == {int(data[i].id) : i \in {j \in 1..Len(data) : truthy(data[j], "id") /\ isdigit(data[j].id)}}

\* get_next_id numbering by the record count instead of the largest id
get_next_id_by_count(data) == Len(data) + 1

get_next_id(data) ==
    IF data = << >> THEN 1
    ELSE IF numeric_ids(data) # {} THEN Max(numeric_ids(data)) + 1 ELSE 1

\* next((x for x in rows if x.get(field) == value), None): index, 0 for None
first_index(rows, field, value) ==
    IF \E i \in 1..Len(rows) : rows[i][field] = value
    THEN CHOOSE i \in 1..Len(rows) : rows[i][field] = value /\ \A j \in 1..(i - 1) : rows[j][field] # value
    ELSE 0

\* [x for x in rows if x.get(field) != value]
without(rows, field, value) == LET keep(x) == x[field] # value IN SelectSeq(rows, keep)

\* row with field f set to v (dict assignment: the key is added when absent)
set_field(row, f, v) == [h \in DOMAIN row \cup {f} |-> IF h = f THEN v ELSE row[h]]

\* ------------------------------------------------------------- CSV codec
\* The text of a CSV file, character by character.  Here a field name and a
\* cell are character sequences, a row is a function from field names to
\* cells, and headers is the list of field names.

\* row.get(k) of a key the row lacks, and DictReader's restval
None == <<"None">>

\* the csv writer quotes a cell that holds the delimiter, the quote character
\* or a character of the line terminator
needs_quotes(cell) == \E i \in 1..Len(cell) : cell[i] \in {",", "\"", "\r", "\n"}

RECURSIVE doubled_quotes(_)
doubled_quotes(cell) ==
    IF cell = << >> THEN << >>
    ELSE (IF Head(cell) = "\"" THEN <<"\"", "\"">> ELSE <<Head(cell)>>) \o doubled_quotes(Tail(cell))

\* one cell as the writer puts it; alone marks the only cell of its row
written_cell(cell, alone) ==
    IF needs_quotes(cell) \/ (alone /\ cell = << >>)
    THEN <<"\"">> \o doubled_quotes(cell) \o <<"\"">>
    ELSE cell

RECURSIVE written_cells(_, _)
written_cells(cells, alone) ==
    IF cells = << >> THEN << >>
    ELSE IF Len(cells) = 1 THEN written_cell(cells[1], alone)
    ELSE written_cell(cells[1], alone) \o <<",">> \o written_cells(Tail(cells), alone)

\* writer.writerow(cells): the cells, comma-separated, and the terminator \r\n
writerow(cells) == written_cells(cells, Len(cells) = 1) \o <<"\r", "\n">>

\* {k: v for k, v in row.items() if k in headers}, and DictWriter's cells for
\* it: a header field the row lacks is written empty
row_cells(row, headers) == [i \in 1..Len(headers) |-> IF headers[i] \in DOMAIN row THEN row[headers[i]] ELSE << >>]

RECURSIVE writerows(_, _)
writerows(data, headers) ==
    IF data = << >> THEN << >> ELSE writerow(row_cells(Head(data), headers)) \o writerows(Tail(data), headers)

\* a CSV file: missing, or the text in it
AbsentCsv == [exists |-> FALSE, text |-> << >>]

\* write_csv(filepath, data, headers): the file opened with newline='' holds
\* the header line and the rows as written
write_csv_file(data, headers) == [exists |-> TRUE, text |-> writerow(headers) \o writerows(data, headers)]

RECURSIVE universal_newlines(_)
\* open(filepath, 'r') without newline='': \r\n and \r are read as \n
universal_newlines(text) ==
    IF text = << >> THEN << >>
    ELSE IF Head(text) = "\r"
    THEN <<"\n">> \o universal_newlines(IF Len(text) >= 2 /\ text[2] = "\n" THEN SubSeq(text, 3, Len(text)) ELSE Tail(text))
    ELSE <<Head(text)>> \o universal_newlines(Tail(text))

RECURSIVE reader_rows(_, _, _, _)
\* csv.reader over the text: the rows, each a list of cells.  state is the
\* parser's: start_record, start_field, in_field, in_quoted_field or
\* quote_in_quoted_field; field and row are the cell and the row being read.
reader_rows(text, state, field, row) ==
    IF text = << >>
    THEN IF state = "start_record" THEN << >> ELSE <<Append(row, field)>>
    ELSE LET c == Head(text)
             rest == Tail(text)
             eol == c \in {"\n", "\r"}
         IN CASE state = "start_record" ->
                   IF eol THEN << << >> >> \o reader_rows(rest, "start_record", << >>, << >>)
                   ELSE reader_rows(text, "start_field", << >>, << >>)
              [] state = "start_field" ->
                   IF eol THEN <<Append(row, << >>)>> \o reader_rows(rest, "start_record", << >>, << >>)
                   ELSE IF c = "\"" THEN reader_rows(rest, "in_quoted_field", << >>, row)
                   ELSE IF c = "," THEN reader_rows(rest, "start_field", << >>, Append(row, << >>))
                   ELSE reader_rows(rest, "in_field", <<c>>, row)
              [] state = "in_field" ->
                   IF eol THEN <<Append(row, field)>> \o reader_rows(rest, "start_record", << >>, << >>)
                   ELSE IF c = "," THEN reader_rows(rest, "start_field", << >>, Append(row, field))
                   ELSE reader_rows(rest, "in_field", Append(field, c), row)
              [] state = "in_quoted_field" ->
                   IF c = "\"" THEN reader_rows(rest, "quote_in_quoted_field", field, row)
                   ELSE reader_rows(rest, "in_quoted_field", Append(field, c), row)
              [] state = "quote_in_quoted_field" ->
                   IF c = "\"" THEN reader_rows(rest, "in_quoted_field", Append(field, c), row)
                   ELSE IF c = "," THEN reader_rows(rest, "start_field", << >>, Append(row, field))
                   ELSE IF eol THEN <<Append(row, field)>> \o reader_rows(rest, "start_record", << >>, << >>)
                   ELSE reader_rows(rest, "in_field", Append(field, c), row)

\* csv.DictReader: the first row names the fields; every later non-empty row
\* becomes a dict, a field the row is too short for getting restval (the
\* surplus cells of a longer row, kept under the key None, are left out)
DictReader(rows) ==
    IF rows = << >> THEN << >>
    ELSE LET fieldnames == Head(rows)
             filled == SelectSeq(Tail(rows), LAMBDA r : r # << >>)
         IN [i \in 1..Len(filled) |->
               [k \in Range(fieldnames) |->
                  LET j == CHOOSE n \in 1..Len(fieldnames) :
                              fieldnames[n] = k /\ \A m \in (n + 1)..Len(fieldnames) : fieldnames[m] # k
                  IN IF j <= Len(filled[i]) THEN filled[i][j] ELSE None]]

\* read_csv(filepath): the list of dicts
read_csv_file(file) ==
    IF ~file.exists THEN << >> ELSE DictReader(reader_rows(universal_newlines(file.text), "start_record", << >>, << >>))

\* str.isdigit() and int() on a cell
Digits == <<"0", "1", "2", "3", "4", "5", "6", "7", "8", "9">>

isdigit_cell(cell) == cell # << >> /\ \A i \in 1..Len(cell) : cell[i] \in Range(Digits)

RECURSIVE int_cell(_)
int_cell(cell) ==
    IF cell = << >> THEN 0
    ELSE 10 * int_cell(SubSeq(cell, 1, Len(cell) - 1)) + ((CHOOSE d \in 1..10 : Digits[d] = cell[Len(cell)]) - 1)

\* row.get(id_field) of a row read from a file
row_get(row, key) == IF key \in DOMAIN row THEN row[key] ELSE None

\* get_next_id counting the rows instead of taking the largest id
get_next_id_file_by_count(file) == Len(read_csv_file(file)) + 1

\* get_next_id(filepath) on a file
get_next_id_file(file) ==
    LET data == read_csv_file(file)
        id_field == <<"i", "d">>
        ids == {int_cell(row_get(data[i], id_field)) :
                  i \in {j \in 1..Len(data) : /\ row_get(data[j], id_field) \notin {None, << >>}
                                              /\ isdigit_cell(row_get(data[j], id_field))}}
    IN IF data = << >> THEN 1
       ELSE IF ids # {} THEN Max(ids) + 1 ELSE 1

\* read_csv of a file of the record store: the rows, each text cell as the
\* file opened without newline='' gives it
read_rows(rows) ==
    [k \in 1..Len(rows) |->
        [f \in DOMAIN rows[k] |-> IF f \in SeqFields THEN universal_newlines(rows[k][f]) ELSE rows[k][f]]]

\* get_all_issues()
get_all_issues(file) == read_rows(file)

\* ------------------------------------------------------------------ state
VARIABLES
    issuesFile,       \* data/issues.csv: the rows read_csv returns
    usersFile,        \* data/users.csv
    commentsFile,     \* data/comments/<issue_id>.csv, by issue id
    historyFile,      \* data/history/<issue_id>.csv, by issue id
    attachmentsFile,  \* data/attachments/<issue_id>.csv, by issue id
    filesDir,         \* data/attachments/files/<issue_id>/: the stored file names
    session,          \* the Flask session of each client
    hospitalsFile,    \* data/hospitals.csv
    teamFile,         \* data/team_members.csv
    csvFile,          \* a CSV file of the data directory, as text
    defaultHospitals, \* the module-level list DEFAULT_HOSPITALS, as it is in memory
    categoriesFile,   \* data/categories.json
    CATEGORY_MAPPINGS, \* the module-level dict of categories, as it is in memory
    clock,            \* the instant datetime.now() returns
    lastOp,           \* the identity request that completed last, and its outcome
    pc,               \* concurrent requests: the position of each request
    loc               \* concurrent requests: the local variables of each request

vars == <<issuesFile, usersFile, commentsFile, historyFile, attachmentsFile, filesDir, hospitalsFile,
         teamFile, csvFile, defaultHospitals, categoriesFile, CATEGORY_MAPPINGS, session, clock, lastOp, pc, loc>>

\* --------------------------------------------------------------- identity
\* ADMIN_USERS: the hard-coded allow-list (one address)
ADMIN_USERS == {<<"a", "@", "c">>}

\* ALLOWED_DOMAIN
ALLOWED_DOMAIN == <<"c">>

is_admin(email) == lower(email) \in {lower(admin) : admin \in ADMIN_USERS}

NoSession == [logged |-> FALSE, user_id |-> "", user_email |-> << >>, user_name |-> << >>, user_role |-> ""]

\* index of the first user whose stored email equals email exactly, 0 for None
get_user_by_email(users, email) == first_index(users, "email", email)

get_user_by_id(users, user_id) == first_index(users, "id", user_id)

\* the dict create_or_update_user returns: user_data with its id (and role) set
saved_user(users, user_data) ==
    LET existing == get_user_by_email(users, user_data.email)
    IN IF existing # 0
       THEN set_field(user_data, "id", users[existing].id)
       ELSE set_field(set_field(user_data, "id", str(get_next_id(users))), "role",
                      IF "role" \in DOMAIN user_data THEN user_data.role ELSE "member")

\* users.csv after create_or_update_user(user_data)
create_or_update_user(users, user_data) ==
    LET existing == get_user_by_email(users, user_data.email)
    IN IF existing # 0
       THEN write_csv(Append(without(users, "email", user_data.email), saved_user(users, user_data)), USERS_HEADERS)
       ELSE write_csv(Append(users, saved_user(users, user_data)), USERS_HEADERS)

\* the session e-mail the resolver works with: the stored one, or, when that is
\* empty, the e-mail of the user with the session's user_id
resolved_email(users, sess) ==
    IF sess.user_email # << >> THEN sess.user_email
    ELSE IF sess.user_id # "" /\ get_user_by_id(users, sess.user_id) # 0
         THEN users[get_user_by_id(users, sess.user_id)].email
         ELSE sess.user_email

\* refresh_user_role promoting the session and not the stored record
refresh_user_role_session_only(users, sess) ==
    IF ~sess.logged THEN [users |-> users, sess |-> sess, path |-> "anonymous"]
    ELSE LET u == get_user_by_email(users, sess.user_email)
         IN IF u = 0 THEN [users |-> users, sess |-> sess, path |-> "no_user"]
            ELSE IF is_admin(sess.user_email)
                 THEN [users |-> users, sess |-> [sess EXCEPT !.user_role = "admin"],
                       path |-> IF users[u].role # "admin" THEN "promoted" ELSE "listed"]
                 ELSE [users |-> users, sess |-> [sess EXCEPT !.user_role = users[u].role], path |-> "stored"]

\* before_request: users.csv and the session after refresh_user_role; path names
\* the branch taken ("promoted": the role "admin" was written to users.csv)
refresh_user_role(users, sess) ==
    IF ~sess.logged THEN [users |-> users, sess |-> sess, path |-> "anonymous"]
    ELSE LET user_email == resolved_email(users, sess)
             s1 == [sess EXCEPT !.user_email = user_email]
             u == get_user_by_email(users, user_email)
         IN IF user_email = << >> THEN [users |-> users, sess |-> s1, path |-> "no_email"]
            ELSE IF is_admin(user_email)
                 THEN IF u = 0 THEN [users |-> users, sess |-> s1, path |-> "no_user"]
                      ELSE [users |-> IF users[u].role # "admin"
                                      THEN create_or_update_user(users, [users[u] EXCEPT !.role = "admin"])
                                      ELSE users,
                            sess |-> [s1 EXCEPT !.user_role = "admin"],
                            path |-> IF users[u].role # "admin" THEN "promoted" ELSE "listed"]
                 ELSE IF u = 0 THEN [users |-> users, sess |-> s1, path |-> "no_user"]
                      ELSE [users |-> users, sess |-> [s1 EXCEPT !.user_role = users[u].role], path |-> "stored"]

\* ----------------------------------------------------------------- issues
\* save_issue appending the updated record without removing the stored one
save_issue_rows_append(issues, issue, next_id) ==
    IF truthy(issue, "id")
    THEN write_csv(Append(issues, issue), ISSUES_HEADERS)
    ELSE write_csv(Append(issues, set_field(issue, "id", str(next_id))), ISSUES_HEADERS)

\* issues.csv after save_issue(issue), for the rows get_all_issues read and the
\* number get_next_id read (two reads of the same file)
save_issue_rows(issues, issue, next_id) ==
    IF truthy(issue, "id")
    THEN write_csv(Append(without(issues, "id", issue.id), issue), ISSUES_HEADERS)
    ELSE write_csv(Append(issues, set_field(issue, "id", str(next_id))), ISSUES_HEADERS)

\* the id save_issue returns
save_issue_id(issue, next_id) == IF truthy(issue, "id") THEN issue.id ELSE str(next_id)

save_issue(issues, issue) == save_issue_rows(issues, issue, get_next_id(issues))

\* <child>.csv after save_comment / add_history / add_attachment, for the rows
\* and the number the function read: the record gets that id and the current
\* time, and is appended
add_child_rows(rows, data, next_id, now, headers) ==
    write_csv(Append(rows, set_field(set_field(data, "id", str(next_id)), "timestamp", isoformat(now))), headers)

add_child(rows, data, now, headers) == add_child_rows(rows, data, get_next_id(rows), now, headers)

save_comment(comments, comment_data, now) == add_child(comments, comment_data, now, COMMENTS_HEADERS)

add_history(history, history_data, now) == add_child(history, history_data, now, HISTORY_HEADERS)

add_attachment(attachments, attachment_data, now) == add_child(attachments, attachment_data, now, ATTACHMENTS_HEADERS)

\* the category string create_issue builds from the three form fields
form_category(form) ==
    IF form.otherSubCategory # << >> THEN form.mainCategory \o <<":", " ">> \o form.otherSubCategory
    ELSE IF form.subCategory # << >> THEN form.mainCategory \o <<":", " ">> \o form.subCategory
    ELSE form.mainCategory

\* the new_issue dict of create_issue (it has no id key)
new_issue(form, user_name, now) ==
    [hospitalUnit |-> form.hospitalUnit,
     zone |-> form.zone,
     priority |-> form.priority,
     category |-> form_category(form),
     taskName |-> form.taskName,
     description |-> form.description,
     mainOwner |-> form.mainOwner,
     coOwners |-> join(SelectSeq(<<form.coOwner1, form.coOwner2>>, LAMBDA o : o # << >>), ","),
     dueDate |-> form.dueDate,
     status |-> "Open",
     dateLogged |-> isoformat(now),
     dateClosed |-> "",
     createdBy |-> user_name,
     lastModified |-> isoformat(now),
     lastModifiedBy |-> user_name,
     resolvedBy |-> "",
     stepsTaken |-> "",
     reviewNotes |-> ""]

\* close_issue without its already-closed test
already_closed_never(issue) == FALSE

\* close_issue testing the status instead
already_closed_by_status(issue) == issue.status = "Closed"

\* close_issue's test "if issue.get('dateClosed')": the issue is closed already
already_closed(issue) == truthy(issue, "dateClosed")

\* close_issue setting dateClosed and leaving the status
closed_issue_keeps_status(issue, now) == [issue EXCEPT !.dateClosed = isoformat(now)]

\* the issue dict close_issue saves
closed_issue(issue, now) == [issue EXCEPT !.dateClosed = isoformat(now), !.status = "Closed"]

\* add_comment stamping the creation time as well
touched_issue_relogged(issue, user_name, now) ==
    [issue EXCEPT !.lastModified = isoformat(now), !.lastModifiedBy = user_name, !.dateLogged = isoformat(now)]

\* the issue dict add_comment saves
touched_issue(issue, user_name, now) == [issue EXCEPT !.lastModified = isoformat(now), !.lastModifiedBy = user_name]

\* ---------------------------------------------------------- issue listing
\* order of the strings that are not ISO timestamps (Python compares str by
\* code point): their rank
StrOrder == <<"", "Closed", "High", "Medium", "Open", "soon">>

str_rank(v) == CHOOSE n \in 1..Len(StrOrder) : StrOrder[n] = v

\* sort_key(issue): a datetime when the value parses, else the raw string
key_kind(issue, sort_by) == IF parses(issue[sort_by]) THEN "datetime" ELSE "str"

key_lt(a, b, sort_by) ==
    IF parses(a[sort_by]) THEN fromisoformat(a[sort_by]) < fromisoformat(b[sort_by])
    ELSE str_rank(a[sort_by]) < str_rank(b[sort_by])

\* list.sort raises TypeError when it compares a datetime with a str
sort_raises(rows, sort_by) ==
    \E i, j \in 1..Len(rows) : key_kind(rows[i], sort_by) # key_kind(rows[j], sort_by)

\* x goes before y in the requested direction
goes_before(x, y, sort_by, sort_dir) ==
    IF sort_dir = "desc" THEN key_lt(y, x, sort_by) ELSE key_lt(x, y, sort_by)

\* x inserted after every element it does not go before (equal keys keep
\* their order: the sort is stable, also with reverse=True)
insert_sorted(sorted, x, sort_by, sort_dir) ==
    LET k == Cardinality({i \in 1..Len(sorted) : ~goes_before(x, sorted[i], sort_by, sort_dir)})
    IN SubSeq(sorted, 1, k) \o <<x>> \o SubSeq(sorted, k + 1, Len(sorted))

RECURSIVE sorted_by(_, _, _)
sorted_by(rows, sort_by, sort_dir) ==
    IF rows = << >> THEN << >>
    ELSE insert_sorted(sorted_by(SubSeq(rows, 1, Len(rows) - 1), sort_by, sort_dir), rows[Len(rows)], sort_by, sort_dir)

\* the category filter matching any category that starts with the argument
passes_filters_by_prefix(i, args, user_name) ==
    /\ args.my_tasks =>
          /\ (i.mainOwner = user_name \/ user_name \in Range(split(i.coOwners, ",")))
          /\ i.status # "Closed"
    /\ args.category # << >> =>
          (i.category = args.category \/ startswith(i.category, args.category))
    /\ args.hospital # << >> => i.hospitalUnit = args.hospital
    /\ args.zone # "" => i.zone = args.zone
    /\ args.priority # "" => i.priority = args.priority
    /\ args.status # "" => i.status = args.status
    /\ lower(args.search) # << >> =>
          \/ contains(lower(i.taskName), lower(args.search))
          \/ contains(lower(i.description), lower(args.search))
          \/ contains(lower(i.hospitalUnit), lower(args.search))
          \/ contains(lower(i.category), lower(args.search))

\* the filters of the listing, in the order the view applies them; an empty
\* (falsy) argument switches its filter off
passes_filters(i, args, user_name) ==
    /\ args.my_tasks =>
          /\ (i.mainOwner = user_name \/ user_name \in Range(split(i.coOwners, ",")))
          /\ i.status # "Closed"
    /\ args.category # << >> =>
          (i.category = args.category \/ startswith(i.category, args.category \o <<":", " ">>))
    /\ args.hospital # << >> => i.hospitalUnit = args.hospital
    /\ args.zone # "" => i.zone = args.zone
    /\ args.priority # "" => i.priority = args.priority
    /\ args.status # "" => i.status = args.status
    /\ lower(args.search) # << >> =>
          \/ contains(lower(i.taskName), lower(args.search))
          \/ contains(lower(i.description), lower(args.search))
          \/ contains(lower(i.hospitalUnit), lower(args.search))
          \/ contains(lower(i.category), lower(args.search))

filtered_issues(issues, args, user_name) ==
    SelectSeq(issues, LAMBDA i : passes_filters(i, args, user_name))

\* the status-sync test of the formatting loop
needs_sync(issue) == truthy(issue, "dateClosed") /\ issue.status # "Closed"

\* issues_to_update: the listed issues that need the sync, status corrected
issues_to_update(listed) ==
    LET fix(i) == [i EXCEPT !.status = "Closed"]
    IN [k \in 1..Len(SelectSeq(listed, needs_sync)) |-> fix(SelectSeq(listed, needs_sync)[k])]

\* the batch update: each updated issue removed by id and appended
RECURSIVE batch_update(_, _)
batch_update(all_issues, updates) ==
    IF updates = << >> THEN all_issues
    ELSE batch_update(Append(without(all_issues, "id", Head(updates).id), Head(updates)), Tail(updates))

\* issues.csv after the listing has run to its write
synced_issues(issues, args, user_name) ==
    LET listed == sorted_by(filtered_issues(issues, args, user_name), args.sort_by, args.sort_dir)
    IN IF issues_to_update(listed) = << >> THEN issues
       ELSE write_csv(batch_update(issues, issues_to_update(listed)), ISSUES_HEADERS)

\* issues.csv after the listing: rewritten, from the rows read, when the
\* listing corrected an issue, and left as it is otherwise
issues_after_listing(file, args, user_name) ==
    LET all == get_all_issues(file)
        listed == sorted_by(filtered_issues(all, args, user_name), args.sort_by, args.sort_dir)
    IN IF issues_to_update(listed) = << >> THEN file ELSE synced_issues(all, args, user_name)

\* -------------------------------------------------------------- hospitals
\* DEFAULT_HOSPITALS (the source lists 329; two stand for them)
\* (name and zone are character sequences: the bulk form is parsed into them)
DEFAULT_HOSPITALS == <<[name |-> <<"H", "1">>, zone |-> << >>], [name |-> <<"H", "2">>, zone |-> <<"Z">>]>>

\* hospitals.csv after get_hospitals(): rewritten with the defaults when it is
\* empty or shorter than the default list
hospitals_after_get(hospitals, defaults) ==
    IF hospitals = << >> \/ Len(hospitals) < Len(defaults) THEN defaults ELSE hospitals

\* the characters of the model in code-point order, for comparing strings
CodePoints == <<"\n", " ", ",", "1", "2", "@", "A", "B", "H", "Z", "a", "b", "h", "z">>

ord(ch) == CHOOSE n \in 1..Len(CodePoints) : CodePoints[n] = ch

\* a < b for two character sequences (Python compares str by code point)
RECURSIVE str_lt(_, _)
str_lt(a, b) ==
    IF b = << >> THEN FALSE
    ELSE IF a = << >> THEN TRUE
    ELSE IF Head(a) # Head(b) THEN ord(Head(a)) < ord(Head(b))
    ELSE str_lt(Tail(a), Tail(b))

\* the headers of hospitals.csv
HOSPITALS_HEADERS == {"name", "zone"}

\* save_hospitals(hospitals_list): the rows hospitals.csv holds afterwards
save_hospitals(hospitals_list) == write_csv(hospitals_list, HOSPITALS_HEADERS)

\* get_hospitals() returned the default list (and rewrote the file with it)
defaults_returned(hospitals, defaults) == hospitals = << >> \/ Len(hospitals) < Len(defaults)

\* any(h.get('name', '').lower() == name.lower() for h in hospitals)
name_taken(hospitals, name) == \E i \in 1..Len(hospitals) : lower(hospitals[i].name) = lower(name)

\* hospitals.sort(key=lambda h: h.get('name', '').lower()): stable
RECURSIVE sort_hospitals(_)
sort_hospitals(hospitals) ==
    IF hospitals = << >> THEN << >>
    ELSE LET rest == sort_hospitals(SubSeq(hospitals, 1, Len(hospitals) - 1))
             x == hospitals[Len(hospitals)]
             k == Cardinality({i \in 1..Len(rest) : ~str_lt(lower(x.name), lower(rest[i].name))})
         IN SubSeq(rest, 1, k) \o <<x>> \o SubSeq(rest, k + 1, Len(rest))

\* ------------------------------------------------------------- categories
\* A Python dict: its items in insertion order, one per key.
dict_keys(d) == {d[i].key : i \in 1..Len(d)}

dict_index(d, k) == CHOOSE i \in 1..Len(d) : d[i].key = k

dict_get(d, k) == d[dict_index(d, k)].value

\* d[k] = v: a stored key keeps its place, a new key goes last
dict_set(d, k, v) ==
    IF k \in dict_keys(d) THEN [d EXCEPT ![dict_index(d, k)].value = v] ELSE Append(d, [key |-> k, value |-> v])

\* d.pop(k) / del d[k]
dict_pop(d, k) == SelectSeq(d, LAMBDA e : e.key # k)

\* d1 == d2: the same keys with equal values, in any order
dict_eq(d1, d2) == Range(d1) = Range(d2)

\* json.dump: the members of the object, as pairs of a name and an array
json_dump(d) == [i \in 1..Len(d) |-> <<d[i].key, d[i].value>>]

RECURSIVE json_load(_)
\* json.load: the dict of the members read one after the other
json_load(text) ==
    IF text = << >> THEN << >>
    ELSE dict_set(json_load(SubSeq(text, 1, Len(text) - 1)), text[Len(text)][1], text[Len(text)][2])

\* DEFAULT_CATEGORY_MAPPINGS (the source lists eleven categories; two stand for them)
DEFAULT_CATEGORY_MAPPINGS ==
    <<[key |-> <<"A">>, value |-> << <<"s">>, <<"O">> >>], [key |-> <<"O">>, value |-> << >>]>>

\* data/categories.json: missing, unreadable as JSON, or the text of an object
AbsentCategories == [exists |-> FALSE, loadable |-> FALSE, text |-> << >>]

CorruptCategories == [exists |-> TRUE, loadable |-> FALSE, text |-> << >>]

\* categories.json after save_categories(categories)
save_categories(categories) == [exists |-> TRUE, loadable |-> TRUE, text |-> json_dump(categories)]

\* load_categories(): the dict it returns and the file it leaves
load_categories(file) ==
    IF file.exists
    THEN IF file.loadable
         THEN [mem |-> json_load(file.text), file |-> file]
         ELSE [mem |-> DEFAULT_CATEGORY_MAPPINGS, file |-> file]
    ELSE [mem |-> DEFAULT_CATEGORY_MAPPINGS, file |-> save_categories(DEFAULT_CATEGORY_MAPPINGS)]

\* the module has been imported with no categories.json and the default
\* hospitals; there is no team roster yet
InitAdmin ==
    /\ teamFile = << >>
    /\ csvFile = AbsentCsv
    /\ defaultHospitals = DEFAULT_HOSPITALS
    /\ categoriesFile = load_categories(AbsentCategories).file
    /\ CATEGORY_MAPPINGS = load_categories(AbsentCategories).mem

\* ---------------------------------------------------------------- requests
Clients == {"c1", "c2"}

\* e-mail addresses typed into the login form
LoginEmails == {<<"a", "@", "c">>, <<" ", "A", "@", "c">>, <<"b", "@", "c">>, <<"e", "@", "x">>, << >>}

\* e-mail addresses and roles typed into the admin "add user" form
RoleEmails == {<<"A", "@", "c">>, <<"b", "@", "c">>, << >>}

Roles == {"admin", "member"}

WebhookUrls == {"", "w"}

\* every request runs refresh_user_role first (app.before_request)
Before(c) == refresh_user_role(usersFile, session[c])

Done(op, c, arg, result) ==
    lastOp' = [op |-> op, client |-> c, arg |-> arg, result |-> result, resolver |-> Before(c).path]

\* the request is answered without the view running: only the resolver's effect
OnlyBefore(c) ==
    /\ usersFile' = Before(c).users
    /\ session' = [session EXCEPT ![c] = Before(c).sess]

\* the address a form field is read as, with the case it was typed in
form_email_as_typed(raw) == strip(raw)

\* request.form.get('email', '').strip().lower()
form_email(raw) == lower(strip(raw))

\* users.csv after the POST /login of a valid address
login_users(users, email) ==
    LET u == get_user_by_email(users, email)
    IN IF u = 0
       THEN create_or_update_user(users, [email |-> email, name |-> split_first(email, "@"),
                                          role |-> IF is_admin(email) THEN "admin" ELSE "member"])
       ELSE IF is_admin(email)
            THEN create_or_update_user(users, [users[u] EXCEPT !.role = "admin"])
            ELSE users

\* the user dict POST /login fills the session from
login_user(users, email) ==
    LET u == get_user_by_email(users, email)
    IN IF u = 0
       THEN saved_user(users, [email |-> email, name |-> split_first(email, "@"),
                               role |-> IF is_admin(email) THEN "admin" ELSE "member"])
       ELSE IF is_admin(email) THEN [users[u] EXCEPT !.role = "admin"] ELSE users[u]

login(c, raw) ==
    LET email == form_email(raw)
        users == Before(c).users
    IN /\ UNCHANGED <<issuesFile, commentsFile, historyFile, attachmentsFile, filesDir, hospitalsFile, teamFile, csvFile, defaultHospitals, categoriesFile, CATEGORY_MAPPINGS, clock, pc, loc>>
       /\ IF email = << >>
          THEN OnlyBefore(c) /\ Done("login", c, "", "email_required")
          ELSE IF ~endswith(email, <<"@">> \o ALLOWED_DOMAIN)
          THEN OnlyBefore(c) /\ Done("login", c, "", "domain_rejected")
          ELSE /\ usersFile' = login_users(users, email)
               /\ session' = [session EXCEPT ![c] =
                      [logged |-> TRUE,
                       user_id |-> login_user(users, email).id,
                       user_email |-> email,
                       user_name |-> login_user(users, email).name,
                       user_role |-> login_user(users, email).role]]
               /\ Done("login", c, "", "ok")

logout(c) ==
    /\ usersFile' = Before(c).users
    /\ session' = [session EXCEPT ![c] = NoSession]
    /\ Done("logout", c, "", "ok")
    /\ UNCHANGED <<issuesFile, commentsFile, historyFile, attachmentsFile, filesDir, hospitalsFile, teamFile, csvFile, defaultHospitals, categoriesFile, CATEGORY_MAPPINGS, clock, pc, loc>>

\* GET /profile: a read-only page behind login_required
profile(c) ==
    /\ OnlyBefore(c)
    /\ Done("profile", c, "", IF Before(c).sess.logged THEN "ok" ELSE "login_redirect")
    /\ UNCHANGED <<issuesFile, commentsFile, historyFile, attachmentsFile, filesDir, hospitalsFile, teamFile, csvFile, defaultHospitals, categoriesFile, CATEGORY_MAPPINGS, clock, pc, loc>>

save_profile(c, webhook_url) ==
    LET b == Before(c)
        u == get_user_by_email(b.users, b.sess.user_email)
    IN /\ UNCHANGED <<issuesFile, commentsFile, historyFile, attachmentsFile, filesDir, hospitalsFile, teamFile, csvFile, defaultHospitals, categoriesFile, CATEGORY_MAPPINGS, clock, pc, loc>>
       /\ session' = [session EXCEPT ![c] = b.sess]
       /\ IF ~b.sess.logged
          THEN usersFile' = b.users /\ Done("save_profile", c, "", "login_redirect")
          ELSE IF u = 0
          THEN usersFile' = b.users /\ Done("save_profile", c, "", "no_user")
          ELSE /\ usersFile' = create_or_update_user(b.users, [b.users[u] EXCEPT !.googleChatWebhookUrl = webhook_url])
               /\ Done("save_profile", c, "", "ok")

add_user_role(c, raw, role) ==
    LET b == Before(c)
        email == form_email(raw)
        u == get_user_by_email(b.users, email)
    IN /\ UNCHANGED <<issuesFile, commentsFile, historyFile, attachmentsFile, filesDir, hospitalsFile, teamFile, csvFile, defaultHospitals, categoriesFile, CATEGORY_MAPPINGS, clock, pc, loc>>
       /\ session' = [session EXCEPT ![c] = b.sess]
       /\ IF ~b.sess.logged \/ b.sess.user_role # "admin"
          THEN usersFile' = b.users /\ Done("add_user_role", c, "", "admin_required")
          ELSE IF email = << >>
          THEN usersFile' = b.users /\ Done("add_user_role", c, "", "email_required")
          ELSE /\ usersFile' = create_or_update_user(b.users,
                      IF u # 0 THEN [b.users[u] EXCEPT !.role = role]
                      ELSE [email |-> email, name |-> split_first(email, "@"), role |-> role])
               /\ Done("add_user_role", c, "", "ok")

\* ---------------------------------------------------------- issue requests
\* the forms posted to /issues/create
IssueForms ==
    {[hospitalUnit |-> <<"H", "1">>, zone |-> "Z", priority |-> "High",
      mainCategory |-> <<"A">>, subCategory |-> << >>, otherSubCategory |-> << >>,
      taskName |-> <<"x">>, description |-> << >>,
      mainOwner |-> <<"b">>, coOwner1 |-> << >>, coOwner2 |-> << >>, dueDate |-> ""],
     [hospitalUnit |-> <<"H", "2">>, zone |-> "", priority |-> "Medium",
      mainCategory |-> <<"A">>, subCategory |-> <<"B">>, otherSubCategory |-> << >>,
      taskName |-> <<"y">>, description |-> <<"X">>,
      mainOwner |-> <<"a">>, coOwner1 |-> <<"e">>, coOwner2 |-> <<"b">>, dueDate |-> "T2"]}

\* the query strings of GET /issues: every combination of the arguments with
\* at most MaxFilters filters switched on
MaxFilters == 1

\* the number of filters a query string switches on
active_filters(a) ==
    (IF a.my_tasks THEN 1 ELSE 0) + (IF a.category # << >> THEN 1 ELSE 0) + (IF a.hospital # << >> THEN 1 ELSE 0)
    + (IF a.status # "" THEN 1 ELSE 0) + (IF a.zone # "" THEN 1 ELSE 0) + (IF a.priority # "" THEN 1 ELSE 0)
    + (IF a.search # << >> THEN 1 ELSE 0)

ListArgs ==
    {a \in [my_tasks : BOOLEAN, category : {<< >>, <<"A">>}, hospital : {<< >>, <<"H", "1">>},
            status : {"", "Open", "Closed"}, zone : {"", "Z"}, priority : {"", "High"},
            search : {<< >>, <<"x">>}, sort_by : {"dateLogged", "dueDate"}, sort_dir : {"asc", "desc"}] :
        active_filters(a) <= MaxFilters}

\* the issue ids a request URL names: the stored ones and one that is not
UrlIds == {issuesFile[i].id : i \in 1..Len(issuesFile)} \cup {"4"}

CommentTexts == {<<"t">>}

\* uploaded file names ("" : no file chosen)
FileNames == {"", "a.pdf", "../a.pdf", "x.exe"}

\* allowed_file: the name has an extension of ALLOWED_EXTENSIONS
allowed_file(filename) == filename \in {"a.pdf", "../a.pdf"}

\* werkzeug's secure_filename
secure_filename(filename) == IF filename = "../a.pdf" THEN "a.pdf" ELSE filename

\* the number of records in all the child files of one kind
RECURSIVE sum_len(_, _)
sum_len(files, ids) ==
    IF ids = {} THEN 0
    ELSE LET i == CHOOSE x \in ids : TRUE IN Len(files[i]) + sum_len(files, ids \ {i})

stored_children(files) == sum_len(files, DOMAIN files)

UnchangedUsers(c) ==
    /\ usersFile' = Before(c).users
    /\ session' = [session EXCEPT ![c] = Before(c).sess]

\* a list slice l[start:end] with Python's indices: counted from 0, a
\* negative one from the end, both clipped to the list
py_index(l, i) == IF i < 0 THEN (IF Len(l) + i < 0 THEN 0 ELSE Len(l) + i) ELSE (IF i > Len(l) THEN Len(l) ELSE i)

\* a slice that starts at the head of the list whatever its start index
py_slice_from_head(l, start, end) == SubSeq(l, 1, py_index(l, end))

py_slice(l, start, end) == SubSeq(l, py_index(l, start) + 1, py_index(l, end))

per_page == 25

\* int(request.args.get('page', 1))
page_of(args) == IF "page" \in DOMAIN args THEN args.page ELSE 1

\* formatted_issues: the listed issues with the status the sync gives them
\* (the two display strings of a date are left out)
formatted_issues(listed) == [k \in 1..Len(listed) |-> IF needs_sync(listed[k]) THEN [listed[k] EXCEPT !.status = "Closed"] ELSE listed[k]]

\* the page and the pagination dict the template gets
rendered_issues(rows, args, user_name) ==
    LET formatted == formatted_issues(sorted_by(filtered_issues(rows, args, user_name), args.sort_by, args.sort_dir))
        page == page_of(args)
        total == Len(formatted)
        start == (page - 1) * per_page
        end == start + per_page
    IN [issues |-> py_slice(formatted, start, end),
        pagination |-> [page |-> page, per_page |-> per_page, total |-> total,
                        pages |-> (total + per_page - 1) \div per_page]]

\* GET /issues; answered tells whether the response is kept in lastOp
issues_view(c, args, answered) ==
    LET sess == Before(c).sess
        listed == filtered_issues(get_all_issues(issuesFile), args, sess.user_name)
    IN /\ UnchangedUsers(c)
       /\ UNCHANGED <<commentsFile, historyFile, attachmentsFile, filesDir, clock, pc, loc>>
       /\ IF ~sess.logged
          THEN /\ UNCHANGED <<issuesFile, hospitalsFile, teamFile, csvFile, defaultHospitals, categoriesFile, CATEGORY_MAPPINGS>>
               /\ IF answered THEN Done("issues_redirect", c, args, "login_redirect") ELSE UNCHANGED lastOp
          ELSE IF sort_raises(listed, args.sort_by)
          THEN /\ UNCHANGED <<issuesFile, hospitalsFile, teamFile, csvFile, defaultHospitals, categoriesFile, CATEGORY_MAPPINGS>>
               /\ IF answered THEN Done("issues_error", c, args, "TypeError") ELSE UNCHANGED lastOp
          ELSE /\ issuesFile' = issues_after_listing(issuesFile, args, sess.user_name)
               /\ hospitalsFile' = hospitals_after_get(hospitalsFile, defaultHospitals)
               /\ UNCHANGED <<teamFile, csvFile, defaultHospitals, categoriesFile, CATEGORY_MAPPINGS>>
               /\ IF answered THEN Done("issues", c, args, rendered_issues(get_all_issues(issuesFile), args, sess.user_name))
                  ELSE UNCHANGED lastOp

\* GET /issues
issues(c, args) == issues_view(c, args, FALSE)

\* GET /issues, the response kept
issues_page(c, args) == issues_view(c, args, TRUE)

\* POST /issues/create
create_issue(c, form) ==
    LET sess == Before(c).sess
        issue == new_issue(form, sess.user_name, clock)
        issue_id == save_issue_id(issue, get_next_id(get_all_issues(issuesFile)))
    IN /\ Len(issuesFile) < MaxIssues
       /\ UnchangedUsers(c)
       /\ UNCHANGED <<commentsFile, attachmentsFile, filesDir, hospitalsFile, teamFile, csvFile, defaultHospitals, categoriesFile, CATEGORY_MAPPINGS, clock, pc, loc>>
       /\ IF ~sess.logged
          THEN UNCHANGED <<issuesFile, historyFile>> /\ UNCHANGED lastOp
          ELSE /\ issuesFile' = save_issue(get_all_issues(issuesFile), issue)
               /\ historyFile' = [historyFile EXCEPT ![issue_id] =
                      add_history(@, [user |-> sess.user_name, action |-> <<"created">> \o form.hospitalUnit], clock)]
               /\ UNCHANGED lastOp

\* POST /issues/<issue_id>/close
close_issue(c, issue_id) ==
    LET sess == Before(c).sess
        k == first_index(issuesFile, "id", issue_id)
    IN /\ UnchangedUsers(c)
       /\ UNCHANGED <<commentsFile, historyFile, attachmentsFile, filesDir, hospitalsFile, teamFile, csvFile, defaultHospitals, categoriesFile, CATEGORY_MAPPINGS, clock, pc, loc>>
       /\ IF ~sess.logged
          THEN UNCHANGED issuesFile /\ UNCHANGED lastOp
          ELSE IF k = 0
          THEN UNCHANGED issuesFile /\ UNCHANGED lastOp
          ELSE IF already_closed(get_all_issues(issuesFile)[k])
          THEN UNCHANGED issuesFile /\ UNCHANGED lastOp
          ELSE /\ issuesFile' = save_issue(get_all_issues(issuesFile), closed_issue(get_all_issues(issuesFile)[k], clock))
               /\ UNCHANGED lastOp

\* POST /issues/<issue_id>/comments
add_comment(c, issue_id, text) ==
    LET sess == Before(c).sess
        k == first_index(issuesFile, "id", issue_id)
    IN /\ stored_children(commentsFile) < MaxComments
       /\ UnchangedUsers(c)
       /\ UNCHANGED <<historyFile, attachmentsFile, filesDir, hospitalsFile, teamFile, csvFile, defaultHospitals, categoriesFile, CATEGORY_MAPPINGS, clock, pc, loc>>
       /\ IF ~sess.logged
          THEN UNCHANGED <<issuesFile, commentsFile>> /\ UNCHANGED lastOp
          ELSE /\ commentsFile' = [commentsFile EXCEPT ![issue_id] =
                      save_comment(@, [text |-> text, authorName |-> sess.user_name, authorEmail |-> sess.user_email], clock)]
               /\ issuesFile' = IF k = 0 THEN issuesFile
                                ELSE save_issue(get_all_issues(issuesFile), touched_issue(get_all_issues(issuesFile)[k], sess.user_name, clock))
               /\ UNCHANGED lastOp

\* POST /issues/<issue_id>/attachments/upload, while fewer than bound
\* attachment records are stored
upload_attachment_upto(c, issue_id, filename, bound) ==
    LET sess == Before(c).sess
        stored == secure_filename(filename)
    IN /\ stored_children(attachmentsFile) < bound
       /\ UnchangedUsers(c)
       /\ UNCHANGED <<issuesFile, commentsFile, hospitalsFile, teamFile, csvFile, defaultHospitals, categoriesFile, CATEGORY_MAPPINGS, clock, pc, loc>>
       /\ IF ~sess.logged
          THEN UNCHANGED <<attachmentsFile, historyFile, filesDir>> /\ UNCHANGED lastOp
          ELSE IF filename = ""
          THEN UNCHANGED <<attachmentsFile, historyFile, filesDir>> /\ UNCHANGED lastOp
          ELSE IF ~allowed_file(filename)
          THEN UNCHANGED <<attachmentsFile, historyFile, filesDir>> /\ UNCHANGED lastOp
          ELSE /\ filesDir' = [filesDir EXCEPT ![issue_id] = @ \cup {stored}]
               /\ attachmentsFile' = [attachmentsFile EXCEPT ![issue_id] =
                      add_attachment(@, [fileName |-> stored, downloadURL |-> stored, uploadedBy |-> sess.user_name], clock)]
               /\ historyFile' = [historyFile EXCEPT ![issue_id] =
                      add_history(@, [user |-> sess.user_name, action |-> <<"uploaded">>], clock)]
               /\ UNCHANGED lastOp

\* POST /issues/<issue_id>/attachments/upload
upload_attachment(c, issue_id, filename) == upload_attachment_upto(c, issue_id, filename, MaxAttach)

\* POST /issues/<issue_id>/attachments/<attachment_id>/delete
delete_attachment(c, issue_id, attachment_id) ==
    LET sess == Before(c).sess
        attachments == attachmentsFile[issue_id]
        k == first_index(attachments, "id", attachment_id)
    IN /\ UnchangedUsers(c)
       /\ UNCHANGED <<issuesFile, commentsFile, historyFile, hospitalsFile, teamFile, csvFile, defaultHospitals, categoriesFile, CATEGORY_MAPPINGS, clock, pc, loc>>
       /\ UNCHANGED lastOp
       /\ IF ~(sess.logged /\ sess.user_role = "admin") \/ k = 0
          THEN UNCHANGED <<attachmentsFile, filesDir>>
          ELSE /\ filesDir' = [filesDir EXCEPT ![issue_id] = @ \ {attachments[k].fileName}]
               /\ attachmentsFile' = [attachmentsFile EXCEPT ![issue_id] =
                      write_csv(without(attachments, "id", attachment_id), ATTACHMENTS_HEADERS)]

\* time passes
Tick ==
    /\ clock < MaxClock
    /\ clock' = clock + 1
    /\ UNCHANGED <<issuesFile, usersFile, commentsFile, historyFile, attachmentsFile, filesDir, hospitalsFile, teamFile, csvFile, defaultHospitals, categoriesFile, CATEGORY_MAPPINGS, session, lastOp, pc, loc>>

\* ------------------------------------------------- initial state and Next
IssueIds == {"1", "2", "3", "4", "docA", "docB", "docC"}

NoOp == [op |-> "", client |-> "", arg |-> "", result |-> "", resolver |-> ""]

Procs == {"p1", "p2"}

\* op: the request; id: the issue it names or creates; rec: the issue dict it
\* saves; snap, next: the rows and the next id it read from issues.csv; csnap,
\* cnext: the same for a child file; stale: issues.csv had changed between its
\* read and its write; result: the outcome it reports
NoLocal == [op |-> "", id |-> "", rec |-> << >>, snap |-> << >>, next |-> 0, csnap |-> << >>, cnext |-> 0,
            stale |-> FALSE, result |-> ""]

\* a fresh data directory, nobody logged in
Init ==
    /\ issuesFile = << >>
    /\ usersFile = << >>
    /\ commentsFile = [i \in IssueIds |-> << >>]
    /\ historyFile = [i \in IssueIds |-> << >>]
    /\ attachmentsFile = [i \in IssueIds |-> << >>]
    /\ filesDir = [i \in IssueIds |-> {}]
    /\ hospitalsFile = << >>
    /\ InitAdmin
    /\ session = [c \in Clients |-> NoSession]
    /\ clock = 1
    /\ lastOp = NoOp
    /\ pc = [p \in Procs |-> "idle"]
    /\ loc = [p \in Procs |-> NoLocal]

NextUsers ==
    \/ \E c \in Clients, raw \in LoginEmails : login(c, raw)
    \/ \E c \in Clients : logout(c)
    \/ \E c \in Clients : profile(c)
    \/ \E c \in Clients, w \in WebhookUrls : save_profile(c, w)
    \/ \E c \in Clients, raw \in RoleEmails, role \in Roles : add_user_role(c, raw, role)

\* the member "b@c" is logged in on client c1 (their user record was created by
\* that login); client c2 is anonymous
BobEmail == <<"b", "@", "c">>

BobSession == [logged |-> TRUE, user_id |-> "1", user_email |-> BobEmail, user_name |-> <<"b">>, user_role |-> "member"]

InitIssues ==
    /\ issuesFile = << >>
    /\ usersFile = login_users(<< >>, BobEmail)
    /\ commentsFile = [i \in IssueIds |-> << >>]
    /\ historyFile = [i \in IssueIds |-> << >>]
    /\ attachmentsFile = [i \in IssueIds |-> << >>]
    /\ filesDir = [i \in IssueIds |-> {}]
    /\ hospitalsFile = << >>
    /\ InitAdmin
    /\ session = [c \in Clients |-> IF c = "c1" THEN BobSession ELSE NoSession]
    /\ clock = 1
    /\ lastOp = NoOp
    /\ pc = [p \in Procs |-> "idle"]
    /\ loc = [p \in Procs |-> NoLocal]

NextIssues ==
    \/ \E c \in Clients, args \in ListArgs : issues(c, args)
    \/ \E c \in Clients, form \in IssueForms : create_issue(c, form)
    \/ \E c \in Clients, issue_id \in UrlIds : close_issue(c, issue_id)
    \/ \E c \in Clients, issue_id \in UrlIds, text \in CommentTexts : add_comment(c, issue_id, text)
    \/ \E c \in Clients, issue_id \in UrlIds, filename \in FileNames : upload_attachment(c, issue_id, filename)
    \/ Tick

\* the issue lifecycle, one completed request at a time, from an empty issues.csv
SpecIssues == InitIssues /\ [][NextIssues]_vars

\* an issue row as import_from_firebase.py export_issues writes it: the id is the
\* Firestore document id, status and dateClosed are copied independently
imported_issue(id, status, dateClosed, hospitalUnit) ==
    [id |-> id, hospitalUnit |-> hospitalUnit, zone |-> "", priority |-> "High", category |-> <<"A">>,
     taskName |-> <<"x">>, description |-> << >>, mainOwner |-> <<"b">>, coOwners |-> << >>, dueDate |-> "",
     status |-> status, dateLogged |-> isoformat(1), dateClosed |-> dateClosed, createdBy |-> <<"a">>,
     lastModified |-> isoformat(1), lastModifiedBy |-> <<"a">>, resolvedBy |-> "", stepsTaken |-> "",
     reviewNotes |-> ""]

DocIds == <<"docA", "docB", "docC">>

\* the issues.csv files an import can leave: n documents, in document order
ImportedFiles ==
    UNION {{[k \in 1..n |-> imported_issue(DocIds[k], f[k].status, f[k].dateClosed, f[k].hospitalUnit)] :
               f \in [1..n -> [status : {"Open", "Closed"}, dateClosed : {"", isoformat(1)},
                               hospitalUnit : {<<"H", "1">>, <<"H", "2">>}]]} : n \in 0..MaxImported}

\* as InitIssues, with issues.csv imported from Firebase
InitImported ==
    /\ issuesFile \in ImportedFiles
    /\ usersFile = login_users(<< >>, BobEmail)
    /\ commentsFile = [i \in IssueIds |-> << >>]
    /\ historyFile = [i \in IssueIds |-> << >>]
    /\ attachmentsFile = [i \in IssueIds |-> << >>]
    /\ filesDir = [i \in IssueIds |-> {}]
    /\ hospitalsFile = << >>
    /\ InitAdmin
    /\ session = [c \in Clients |-> IF c = "c1" THEN BobSession ELSE NoSession]
    /\ clock = 1
    /\ lastOp = NoOp
    /\ pc = [p \in Procs |-> "idle"]
    /\ loc = [p \in Procs |-> NoLocal]

NextImported ==
    \/ \E c \in Clients, args \in ListArgs : issues(c, args)
    \/ \E c \in Clients, issue_id \in UrlIds : close_issue(c, issue_id)
    \/ \E c \in Clients, issue_id \in UrlIds, text \in CommentTexts : add_comment(c, issue_id, text)
    \/ Tick

\* listing, closing and commenting on issues imported from Firebase
SpecImported == InitImported /\ [][NextImported]_vars

\* ------------------------------------------------------ concurrent requests
\* a write that adds the rows to those the file holds (mode 'a')
write_all_appending(stored, rows) == stored \o rows

\* the file after write_csv: it is opened in mode 'w', so the rows written
\* replace whatever it held
write_all(stored, rows) == rows

\* Two requests of the logged-in member run at once (a threaded server). Every
\* read_csv and every write_csv is one step; nothing else orders them.
ConcUser == <<"b">>

\* save_issue, line 210, on the create path: the form is read, issues.csv is read
create_read_issues(p, form) ==
    /\ pc[p] = "idle"
    /\ pc' = [pc EXCEPT ![p] = "create_next_id"]
    /\ loc' = [loc EXCEPT ![p] = [@ EXCEPT !.op = "create_issue", !.rec = new_issue(form, ConcUser, clock), !.snap = issuesFile]]
    /\ UNCHANGED <<issuesFile, usersFile, commentsFile, historyFile, attachmentsFile, filesDir, hospitalsFile, teamFile, csvFile, defaultHospitals, categoriesFile, CATEGORY_MAPPINGS, session, clock, lastOp>>

\* get_next_id(ISSUES_CSV), line 219: issues.csv is read again
create_read_next_id(p) ==
    /\ pc[p] = "create_next_id"
    /\ pc' = [pc EXCEPT ![p] = "create_write"]
    /\ loc' = [loc EXCEPT ![p] = [@ EXCEPT !.next = get_next_id(issuesFile)]]
    /\ UNCHANGED <<issuesFile, usersFile, commentsFile, historyFile, attachmentsFile, filesDir, hospitalsFile, teamFile, csvFile, defaultHospitals, categoriesFile, CATEGORY_MAPPINGS, session, clock, lastOp>>

\* write_csv, line 223, on the create path
create_write_issues(p) ==
    /\ pc[p] = "create_write"
    /\ issuesFile' = write_all(issuesFile, save_issue_rows(loc[p].snap, loc[p].rec, loc[p].next))
    /\ pc' = [pc EXCEPT ![p] = "history_read"]
    /\ loc' = [loc EXCEPT ![p] = [@ EXCEPT !.id = save_issue_id(loc[p].rec, loc[p].next), !.stale = (issuesFile # loc[p].snap)]]
    /\ UNCHANGED <<usersFile, commentsFile, historyFile, attachmentsFile, filesDir, hospitalsFile, teamFile, csvFile, defaultHospitals, categoriesFile, CATEGORY_MAPPINGS, session, clock, lastOp>>

\* add_history, line 277: the history file of the new issue is read
history_read(p) ==
    /\ pc[p] = "history_read"
    /\ pc' = [pc EXCEPT ![p] = "history_next_id"]
    /\ loc' = [loc EXCEPT ![p] = [@ EXCEPT !.csnap = historyFile[loc[p].id]]]
    /\ UNCHANGED <<issuesFile, usersFile, commentsFile, historyFile, attachmentsFile, filesDir, hospitalsFile, teamFile, csvFile, defaultHospitals, categoriesFile, CATEGORY_MAPPINGS, session, clock, lastOp>>

\* add_history, line 279: get_next_id reads the history file again
history_read_next_id(p) ==
    /\ pc[p] = "history_next_id"
    /\ pc' = [pc EXCEPT ![p] = "history_write"]
    /\ loc' = [loc EXCEPT ![p] = [@ EXCEPT !.cnext = get_next_id(historyFile[loc[p].id])]]
    /\ UNCHANGED <<issuesFile, usersFile, commentsFile, historyFile, attachmentsFile, filesDir, hospitalsFile, teamFile, csvFile, defaultHospitals, categoriesFile, CATEGORY_MAPPINGS, session, clock, lastOp>>

\* add_history, line 283: the history file is written; create_issue reports success
history_write(p) ==
    /\ pc[p] = "history_write"
    /\ historyFile' = [historyFile EXCEPT ![loc[p].id] =
           write_all(@, add_child_rows(loc[p].csnap, [user |-> ConcUser, action |-> <<"created">> \o loc[p].rec.hospitalUnit],
                                       loc[p].cnext, clock, HISTORY_HEADERS))]
    /\ pc' = [pc EXCEPT ![p] = "done"]
    /\ loc' = [loc EXCEPT ![p] = [@ EXCEPT !.result = "ok"]]
    /\ UNCHANGED <<issuesFile, usersFile, commentsFile, attachmentsFile, filesDir, hospitalsFile, teamFile, csvFile, defaultHospitals, categoriesFile, CATEGORY_MAPPINGS, session, clock, lastOp>>

\* close_issue, lines 1173-1186: issues.csv is read and the issue looked up
close_read_issues(p, issue_id) ==
    LET k == first_index(issuesFile, "id", issue_id)
    IN /\ pc[p] = "idle"
       /\ IF k = 0
          THEN /\ pc' = [pc EXCEPT ![p] = "done"]
               /\ loc' = [loc EXCEPT ![p] = [@ EXCEPT !.op = "close_issue", !.id = issue_id, !.result = "not_found"]]
          ELSE IF already_closed(issuesFile[k])
          THEN /\ pc' = [pc EXCEPT ![p] = "done"]
               /\ loc' = [loc EXCEPT ![p] = [@ EXCEPT !.op = "close_issue", !.id = issue_id, !.result = "already_closed"]]
          ELSE /\ pc' = [pc EXCEPT ![p] = "save_read"]
               /\ loc' = [loc EXCEPT ![p] = [@ EXCEPT !.op = "close_issue", !.id = issue_id, !.rec = closed_issue(issuesFile[k], clock)]]
       /\ UNCHANGED <<issuesFile, usersFile, commentsFile, historyFile, attachmentsFile, filesDir, hospitalsFile, teamFile, csvFile, defaultHospitals, categoriesFile, CATEGORY_MAPPINGS, session, clock, lastOp>>

\* save_issue, line 210, on the update path (close_issue and add_comment)
save_read_issues(p) ==
    /\ pc[p] = "save_read"
    /\ pc' = [pc EXCEPT ![p] = "save_write"]
    /\ loc' = [loc EXCEPT ![p] = [@ EXCEPT !.snap = issuesFile]]
    /\ UNCHANGED <<issuesFile, usersFile, commentsFile, historyFile, attachmentsFile, filesDir, hospitalsFile, teamFile, csvFile, defaultHospitals, categoriesFile, CATEGORY_MAPPINGS, session, clock, lastOp>>

\* write_csv, line 223, on the update path; the request reports success
save_write_issues(p) ==
    /\ pc[p] = "save_write"
    /\ issuesFile' = write_all(issuesFile, save_issue_rows(loc[p].snap, loc[p].rec, loc[p].next))
    /\ pc' = [pc EXCEPT ![p] = "done"]
    /\ loc' = [loc EXCEPT ![p] = [@ EXCEPT !.stale = (issuesFile # loc[p].snap), !.result = "ok"]]
    /\ UNCHANGED <<usersFile, commentsFile, historyFile, attachmentsFile, filesDir, hospitalsFile, teamFile, csvFile, defaultHospitals, categoriesFile, CATEGORY_MAPPINGS, session, clock, lastOp>>

\* save_comment, line 259: the comments file is read
comment_read(p, issue_id) ==
    /\ pc[p] = "idle"
    /\ pc' = [pc EXCEPT ![p] = "comment_next_id"]
    /\ loc' = [loc EXCEPT ![p] = [@ EXCEPT !.op = "add_comment", !.id = issue_id, !.csnap = commentsFile[issue_id]]]
    /\ UNCHANGED <<issuesFile, usersFile, commentsFile, historyFile, attachmentsFile, filesDir, hospitalsFile, teamFile, csvFile, defaultHospitals, categoriesFile, CATEGORY_MAPPINGS, session, clock, lastOp>>

\* save_comment, line 261: get_next_id reads the comments file again
comment_read_next_id(p) ==
    /\ pc[p] = "comment_next_id"
    /\ pc' = [pc EXCEPT ![p] = "comment_write"]
    /\ loc' = [loc EXCEPT ![p] = [@ EXCEPT !.cnext = get_next_id(commentsFile[loc[p].id])]]
    /\ UNCHANGED <<issuesFile, usersFile, commentsFile, historyFile, attachmentsFile, filesDir, hospitalsFile, teamFile, csvFile, defaultHospitals, categoriesFile, CATEGORY_MAPPINGS, session, clock, lastOp>>

\* save_comment, line 265: the comments file is written
comment_write(p) ==
    /\ pc[p] = "comment_write"
    /\ commentsFile' = [commentsFile EXCEPT ![loc[p].id] =
           write_all(@, add_child_rows(loc[p].csnap, [text |-> <<"t">>, authorName |-> ConcUser, authorEmail |-> <<"b", "@", "c">>],
                                       loc[p].cnext, clock, COMMENTS_HEADERS))]
    /\ pc' = [pc EXCEPT ![p] = "touch_read"]
    /\ UNCHANGED <<issuesFile, usersFile, historyFile, attachmentsFile, filesDir, hospitalsFile, teamFile, csvFile, defaultHospitals, categoriesFile, CATEGORY_MAPPINGS, session, clock, lastOp, loc>>

\* add_comment, lines 1213-1217: issues.csv is read and the issue looked up
touch_read_issues(p) ==
    LET k == first_index(issuesFile, "id", loc[p].id)
    IN /\ pc[p] = "touch_read"
       /\ IF k = 0
          THEN /\ pc' = [pc EXCEPT ![p] = "done"]
               /\ loc' = [loc EXCEPT ![p] = [@ EXCEPT !.result = "ok"]]
          ELSE /\ pc' = [pc EXCEPT ![p] = "save_read"]
               /\ loc' = [loc EXCEPT ![p] = [@ EXCEPT !.rec = touched_issue(issuesFile[k], ConcUser, clock)]]
       /\ UNCHANGED <<issuesFile, usersFile, commentsFile, historyFile, attachmentsFile, filesDir, hospitalsFile, teamFile, csvFile, defaultHospitals, categoriesFile, CATEGORY_MAPPINGS, session, clock, lastOp>>

\* -------------------------------------------------------- hospital requests
RECURSIVE unquote(_)
\* urllib.parse.unquote: an escape %41 becomes the letter A
unquote(s) ==
    IF s = << >> THEN << >>
    ELSE IF Len(s) >= 3 /\ SubSeq(s, 1, 3) = <<"%", "4", "1">>
    THEN <<"A">> \o unquote(SubSeq(s, 4, Len(s)))
    ELSE <<s[1]>> \o unquote(Tail(s))

\* admin_required lets the request through
admin_ok(c) == Before(c).sess.logged /\ Before(c).sess.user_role = "admin"

\* what a hospital request leaves alone, and the resolver pass before it
HospitalFrame(c) ==
    /\ usersFile' = Before(c).users
    /\ session' = [session EXCEPT ![c] = Before(c).sess]
    /\ UNCHANGED <<issuesFile, commentsFile, historyFile, attachmentsFile, filesDir, teamFile, csvFile, categoriesFile, CATEGORY_MAPPINGS, clock, pc, loc>>

\* names and zones typed into the hospital forms
HospitalNames == {<<"H", "1">>, <<"h", "1">>, <<" ", "b">>, << >>}

HospitalZones == {<<"Z", " ">>}

\* the hospital names of the URLs: the stored ones and one that is not stored
UrlNames == {hospitalsFile[i].name : i \in 1..Len(hospitalsFile)} \cup {<<"z">>}

\* texts typed into the bulk form: a new name and a stored one; a line without
\* a name and a new one; the same new name twice; blank lines only; a stored
\* name with a zone, a blank line and a new name
BulkTexts ==
    {<<"B", "\n", "h", "1">>,
     <<",", "Z", "\n", "B", ",", "Z">>,
     <<"b", "\n", "B">>,
     <<" ", "\n">>,
     <<"H", "2", ",", " ", "Z", "\n", "\n", "b", " ">>}

MaxHospitals == 3    \* a hospital is added while fewer are stored

\* POST /admin/hospitals/add
add_hospital(c, raw_name, raw_zone) ==
    LET hospitals == hospitals_after_get(hospitalsFile, defaultHospitals)
        name == strip(raw_name)
        zone == strip(raw_zone)
    IN /\ HospitalFrame(c)
       /\ UNCHANGED defaultHospitals
       /\ IF ~admin_ok(c)
          THEN UNCHANGED hospitalsFile /\ UNCHANGED lastOp
          ELSE IF name = << >>
          THEN hospitalsFile' = hospitals /\ UNCHANGED lastOp
          ELSE IF name_taken(hospitals, name)
          THEN hospitalsFile' = hospitals /\ UNCHANGED lastOp
          ELSE /\ Len(hospitals) < MaxHospitals
               /\ hospitalsFile' = save_hospitals(sort_hospitals(Append(hospitals, [name |-> name, zone |-> zone])))
               /\ UNCHANGED lastOp

\* POST /admin/hospitals/<name>/edit
edit_hospital(c, url_name, raw_new_name, raw_new_zone) ==
    LET name == unquote(url_name)
        hospitals == hospitals_after_get(hospitalsFile, defaultHospitals)
        new_name == strip(raw_new_name)
        new_zone == strip(raw_new_zone)
        k == first_index(hospitals, "name", name)
        edited == [hospitals EXCEPT ![k] = [name |-> new_name, zone |-> new_zone]]
    IN /\ HospitalFrame(c)
       /\ IF ~admin_ok(c)
          THEN UNCHANGED <<hospitalsFile, defaultHospitals>> /\ UNCHANGED lastOp
          ELSE IF new_name = << >>
          THEN hospitalsFile' = hospitals /\ UNCHANGED defaultHospitals /\ UNCHANGED lastOp
          ELSE IF k = 0
          THEN hospitalsFile' = hospitals /\ UNCHANGED defaultHospitals /\ UNCHANGED lastOp
          ELSE /\ hospitalsFile' = save_hospitals(sort_hospitals(edited))
               \* the list get_hospitals returned holds the dicts of DEFAULT_HOSPITALS itself
               /\ defaultHospitals' = IF defaults_returned(hospitalsFile, defaultHospitals)
                                      THEN [defaultHospitals EXCEPT ![k] = [name |-> new_name, zone |-> new_zone]]
                                      ELSE defaultHospitals
               /\ UNCHANGED lastOp

\* POST /admin/hospitals/<name>/delete
delete_hospital(c, url_name) ==
    LET name == unquote(url_name)
        hospitals == hospitals_after_get(hospitalsFile, defaultHospitals)
    IN /\ HospitalFrame(c)
       /\ UNCHANGED defaultHospitals
       /\ IF ~admin_ok(c)
          THEN UNCHANGED hospitalsFile /\ UNCHANGED lastOp
          ELSE /\ hospitalsFile' = save_hospitals(without(hospitals, "name", name))
               /\ UNCHANGED lastOp

\* line.split(',', 1) of a stripped line: the name and the zone, stripped
line_name(line) == strip(split_first(line, ","))

line_zone(line) ==
    IF Len(split_first(line, ",")) = Len(line) THEN << >>
    ELSE strip(SubSeq(line, Len(split_first(line, ",")) + 2, Len(line)))

\* one pass of the loop of bulk_add_hospitals over a line
bulk_line(acc, raw_line) ==
    LET line == strip(raw_line)
    IN IF line = << >> THEN acc
       ELSE IF line_name(line) = << >> THEN acc
       ELSE IF name_taken(acc.hospitals, line_name(line))
       THEN [acc EXCEPT !.skipped = @ + 1]
       ELSE [acc EXCEPT !.hospitals = Append(@, [name |-> line_name(line), zone |-> line_zone(line)]),
                        !.added = @ + 1]

\* the loop over the lines, from the list get_hospitals returned
RECURSIVE bulk_loop(_, _)
bulk_loop(hospitals, lines) ==
    IF lines = << >> THEN [hospitals |-> hospitals, added |-> 0, skipped |-> 0]
    ELSE bulk_line(bulk_loop(hospitals, SubSeq(lines, 1, Len(lines) - 1)), lines[Len(lines)])

\* POST /admin/hospitals/bulk_add
bulk_add_hospitals(c, raw_text) ==
    LET hospitals == hospitals_after_get(hospitalsFile, defaultHospitals)
        hospitals_text == strip(raw_text)
        done == bulk_loop(hospitals, split(hospitals_text, "\n"))
    IN /\ HospitalFrame(c)
       /\ UNCHANGED defaultHospitals
       /\ IF ~admin_ok(c)
          THEN UNCHANGED hospitalsFile /\ Done("bulk_add_hospitals", c, <<0, 0>>, "admin_required")
          ELSE IF hospitals_text = << >>
          THEN hospitalsFile' = hospitals /\ Done("bulk_add_hospitals", c, <<0, 0>>, "none_provided")
          ELSE /\ Len(done.hospitals) <= MaxHospitals
               /\ hospitalsFile' = IF done.added > 0 THEN save_hospitals(sort_hospitals(done.hospitals)) ELSE hospitals
               /\ Done("bulk_add_hospitals", c, <<done.added, done.skipped>>,
                       IF done.added = 0 /\ done.skipped = 0 THEN "none_valid" ELSE "ok")

\* the admin is logged in on one client, nobody on the other; hospitals.csv holds the default list,
\* or the default list and one more hospital
AdminEmail == <<"a", "@", "c">>

InitHospitals ==
    /\ issuesFile = << >>
    /\ usersFile = login_users(<< >>, AdminEmail)
    /\ commentsFile = [i \in IssueIds |-> << >>]
    /\ historyFile = [i \in IssueIds |-> << >>]
    /\ attachmentsFile = [i \in IssueIds |-> << >>]
    /\ filesDir = [i \in IssueIds |-> {}]
    /\ hospitalsFile \in {save_hospitals(DEFAULT_HOSPITALS),
                          save_hospitals(sort_hospitals(Append(DEFAULT_HOSPITALS, [name |-> <<"b">>, zone |-> << >>])))}
    /\ InitAdmin
    /\ session = [c \in Clients |->
                    IF c = "c1"
                    THEN [logged |-> TRUE, user_id |-> "1", user_email |-> AdminEmail, user_name |-> <<"a">>, user_role |-> "admin"]
                    ELSE NoSession]
    /\ clock = 1
    /\ lastOp = NoOp
    /\ pc = [p \in Procs |-> "idle"]
    /\ loc = [p \in Procs |-> NoLocal]

NextHospitals ==
    \/ \E c \in Clients, raw_name \in HospitalNames, raw_zone \in HospitalZones : add_hospital(c, raw_name, raw_zone)
    \/ \E c \in Clients, name \in UrlNames, raw_new_name \in HospitalNames, raw_new_zone \in HospitalZones :
          edit_hospital(c, name, raw_new_name, raw_new_zone)
    \/ \E c \in Clients, name \in UrlNames : delete_hospital(c, name)
    \/ \E c \in Clients, raw_text \in BulkTexts : bulk_add_hospitals(c, raw_text)

\* the hospital administration of the admin panel
SpecHospitals == InitHospitals /\ [][NextHospitals]_vars

\* -------------------------------------------------------- category requests
\* list.index(x): the place of the first x
list_index(l, x) == CHOOSE i \in 1..Len(l) : l[i] = x /\ \A j \in 1..(i - 1) : l[j] # x

\* list.remove(x): the list without its first x
list_remove(l, x) == SubSeq(l, 1, list_index(l, x) - 1) \o SubSeq(l, list_index(l, x) + 1, Len(l))

\* The six category functions: the mapping and categories.json they leave, and
\* what they return (add_category returns nothing).
add_category(categories, file, category_name, subcategories) ==
    LET mem == dict_set(categories, category_name, subcategories)
    IN [mem |-> mem, file |-> save_categories(mem), result |-> TRUE]

update_category_keeping_old(categories, file, old_name, new_name) ==
    IF old_name \in dict_keys(categories)
    THEN LET mem == dict_set(categories, new_name, dict_get(categories, old_name))
         IN [mem |-> mem, file |-> save_categories(mem), result |-> TRUE]
    ELSE [mem |-> categories, file |-> file, result |-> FALSE]

update_category(categories, file, old_name, new_name) ==
    IF old_name \in dict_keys(categories)
    THEN LET subcategories == dict_get(categories, old_name)
             mem == dict_set(dict_pop(categories, old_name), new_name, subcategories)
         IN [mem |-> mem, file |-> save_categories(mem), result |-> TRUE]
    ELSE [mem |-> categories, file |-> file, result |-> FALSE]

delete_category(categories, file, category_name) ==
    IF category_name \in dict_keys(categories)
    THEN LET mem == dict_pop(categories, category_name)
         IN [mem |-> mem, file |-> save_categories(mem), result |-> TRUE]
    ELSE [mem |-> categories, file |-> file, result |-> FALSE]

add_subcategory(categories, file, category_name, subcategory) ==
    IF category_name \in dict_keys(categories) /\ subcategory \notin Range(dict_get(categories, category_name))
    THEN LET mem == dict_set(categories, category_name, Append(dict_get(categories, category_name), subcategory))
         IN [mem |-> mem, file |-> save_categories(mem), result |-> TRUE]
    ELSE [mem |-> categories, file |-> file, result |-> FALSE]

update_subcategory(categories, file, category_name, old_sub, new_sub) ==
    IF category_name \in dict_keys(categories) /\ old_sub \in Range(dict_get(categories, category_name))
    THEN LET subcategories == dict_get(categories, category_name)
             index == list_index(subcategories, old_sub)
             mem == dict_set(categories, category_name, [subcategories EXCEPT ![index] = new_sub])
         IN [mem |-> mem, file |-> save_categories(mem), result |-> TRUE]
    ELSE [mem |-> categories, file |-> file, result |-> FALSE]

delete_subcategory_unsaved(categories, file, category_name, subcategory) ==
    IF category_name \in dict_keys(categories) /\ subcategory \in Range(dict_get(categories, category_name))
    THEN [mem |-> dict_set(categories, category_name, list_remove(dict_get(categories, category_name), subcategory)),
          file |-> file, result |-> TRUE]
    ELSE [mem |-> categories, file |-> file, result |-> FALSE]

delete_subcategory(categories, file, category_name, subcategory) ==
    IF category_name \in dict_keys(categories) /\ subcategory \in Range(dict_get(categories, category_name))
    THEN LET mem == dict_set(categories, category_name, list_remove(dict_get(categories, category_name), subcategory))
         IN [mem |-> mem, file |-> save_categories(mem), result |-> TRUE]
    ELSE [mem |-> categories, file |-> file, result |-> FALSE]

\* what a category request leaves alone, and the resolver pass before it
CategoryFrame(c) ==
    /\ usersFile' = Before(c).users
    /\ session' = [session EXCEPT ![c] = Before(c).sess]
    /\ UNCHANGED <<issuesFile, commentsFile, historyFile, attachmentsFile, filesDir, hospitalsFile, teamFile, csvFile, defaultHospitals, clock, pc, loc>>

\* the function's outcome becomes the state
category_done(done) ==
    /\ CATEGORY_MAPPINGS' = done.mem
    /\ categoriesFile' = done.file

\* names typed into the category and subcategory forms
CategoryNames == {<<"B">>, <<"A", " ">>, << >>}

SubNames == {<<"s">>, <<"t", " ">>, << >>}

\* the categories of the URLs: the stored ones, and A with its letter escaped
UrlCategories == dict_keys(CATEGORY_MAPPINGS) \cup {<<"%", "4", "1">>}

\* the subcategories of the URLs
UrlSubs == {<<"s">>, <<"t">>}

MaxSubs == 2    \* a subcategory is added while a category has fewer

\* POST /admin/categories/add
add_category_route(c, raw_name) ==
    LET category_name == strip(raw_name)
    IN /\ CategoryFrame(c)
       /\ UNCHANGED lastOp
       /\ IF ~admin_ok(c) \/ category_name = << >> \/ category_name \in dict_keys(CATEGORY_MAPPINGS)
          THEN UNCHANGED <<categoriesFile, CATEGORY_MAPPINGS>>
          ELSE category_done(add_category(CATEGORY_MAPPINGS, categoriesFile, category_name, << >>))

\* POST /admin/categories/<category>/edit
edit_category_route(c, url_category, raw_new_name) ==
    LET category == unquote(url_category)
        new_name == strip(raw_new_name)
    IN /\ CategoryFrame(c)
       /\ UNCHANGED lastOp
       /\ IF ~admin_ok(c) \/ new_name = << >>
          THEN UNCHANGED <<categoriesFile, CATEGORY_MAPPINGS>>
          ELSE category_done(update_category(CATEGORY_MAPPINGS, categoriesFile, category, new_name))

\* POST /admin/categories/<category>/delete
delete_category_route(c, url_category) ==
    /\ CategoryFrame(c)
    /\ UNCHANGED lastOp
    /\ IF ~admin_ok(c)
       THEN UNCHANGED <<categoriesFile, CATEGORY_MAPPINGS>>
       ELSE category_done(delete_category(CATEGORY_MAPPINGS, categoriesFile, unquote(url_category)))

\* POST /admin/categories/<category>/subcategories/add
add_subcategory_route(c, url_category, raw_sub) ==
    LET category == unquote(url_category)
        subcategory == strip(raw_sub)
    IN /\ CategoryFrame(c)
       /\ UNCHANGED lastOp
       /\ IF ~admin_ok(c) \/ subcategory = << >>
          THEN UNCHANGED <<categoriesFile, CATEGORY_MAPPINGS>>
          ELSE /\ category \in dict_keys(CATEGORY_MAPPINGS) => Len(dict_get(CATEGORY_MAPPINGS, category)) < MaxSubs
               /\ category_done(add_subcategory(CATEGORY_MAPPINGS, categoriesFile, category, subcategory))

\* POST /admin/categories/<category>/subcategories/<sub>/edit
edit_subcategory_route(c, url_category, url_sub, raw_new_sub) ==
    LET new_sub == strip(raw_new_sub)
    IN /\ CategoryFrame(c)
       /\ UNCHANGED lastOp
       /\ IF ~admin_ok(c) \/ new_sub = << >>
          THEN UNCHANGED <<categoriesFile, CATEGORY_MAPPINGS>>
          ELSE category_done(update_subcategory(CATEGORY_MAPPINGS, categoriesFile, unquote(url_category), unquote(url_sub), new_sub))

\* POST /admin/categories/<category>/subcategories/<sub>/delete
delete_subcategory_route(c, url_category, url_sub) ==
    /\ CategoryFrame(c)
    /\ UNCHANGED lastOp
    /\ IF ~admin_ok(c)
       THEN UNCHANGED <<categoriesFile, CATEGORY_MAPPINGS>>
       ELSE category_done(delete_subcategory(CATEGORY_MAPPINGS, categoriesFile, unquote(url_category), unquote(url_sub)))

\* categories.json when the application starts: missing, written by an earlier
\* run, or edited by hand with a name given twice
StartupFiles ==
    {AbsentCategories,
     save_categories(<<[key |-> <<"B">>, value |-> << <<"t">> >>]>>),
     [exists |-> TRUE, loadable |-> TRUE,
      text |-> << <<(<<"A">>), << <<"s">> >> >>, <<(<<"A">>), << <<"t">>, <<"t">> >> >> >>]}

\* the application has started on one of these files; the admin is logged in on
\* one client, nobody on the other
InitCategories ==
    /\ issuesFile = << >>
    /\ usersFile = login_users(<< >>, AdminEmail)
    /\ commentsFile = [i \in IssueIds |-> << >>]
    /\ historyFile = [i \in IssueIds |-> << >>]
    /\ attachmentsFile = [i \in IssueIds |-> << >>]
    /\ filesDir = [i \in IssueIds |-> {}]
    /\ hospitalsFile = save_hospitals(DEFAULT_HOSPITALS)
    /\ teamFile = << >>
    /\ csvFile = AbsentCsv
    /\ defaultHospitals = DEFAULT_HOSPITALS
    /\ \E file \in StartupFiles :
          /\ categoriesFile = load_categories(file).file
          /\ CATEGORY_MAPPINGS = load_categories(file).mem
    /\ session = [c \in Clients |->
                    IF c = "c1"
                    THEN [logged |-> TRUE, user_id |-> "1", user_email |-> AdminEmail, user_name |-> <<"a">>, user_role |-> "admin"]
                    ELSE NoSession]
    /\ clock = 1
    /\ lastOp = NoOp
    /\ pc = [p \in Procs |-> "idle"]
    /\ loc = [p \in Procs |-> NoLocal]

NextCategories ==
    \/ \E c \in Clients, raw_name \in CategoryNames : add_category_route(c, raw_name)
    \/ \E c \in Clients, url_category \in UrlCategories, raw_new_name \in CategoryNames :
          edit_category_route(c, url_category, raw_new_name)
    \/ \E c \in Clients, url_category \in UrlCategories : delete_category_route(c, url_category)
    \/ \E c \in Clients, url_category \in UrlCategories, raw_sub \in SubNames : add_subcategory_route(c, url_category, raw_sub)
    \/ \E c \in Clients, url_category \in UrlCategories, url_sub \in UrlSubs, raw_new_sub \in SubNames :
          edit_subcategory_route(c, url_category, url_sub, raw_new_sub)
    \/ \E c \in Clients, url_category \in UrlCategories, url_sub \in UrlSubs : delete_subcategory_route(c, url_category, url_sub)

\* the category administration of the admin panel
SpecCategories == InitCategories /\ [][NextCategories]_vars

\* ------------------------------------------------------------ team roster
TEAM_HEADERS == {"uid", "name", "email"}

\* team_members.csv after save_team_members(team_list)
save_team_members(team_list) == write_csv(team_list, TEAM_HEADERS)

\* any(tm.get('email') == email for tm in team_members)
in_team(team_members, email) == \E i \in 1..Len(team_members) : team_members[i].email = email

\* the roster entry add_team_member builds from the user it found
team_member(user, email) == [uid |-> user.id, name |-> user.name, email |-> email]

\* what a team request leaves alone, and the resolver pass before it
TeamFrame(c) ==
    /\ usersFile' = Before(c).users
    /\ session' = [session EXCEPT ![c] = Before(c).sess]
    /\ UNCHANGED <<issuesFile, commentsFile, historyFile, attachmentsFile, filesDir, hospitalsFile, csvFile,
                   defaultHospitals, categoriesFile, CATEGORY_MAPPINGS, clock, pc, loc>>

\* e-mail addresses typed into the "add team member" form
TeamEmails == {<<"B", "@", "c">>, <<"b", "@", "c", " ">>, <<"a", "@", "c">>, <<"z", "@", "c">>}

\* the uids of the delete URLs: the ids of the users, and one that is no user's
TeamUids == {usersFile[i].id : i \in 1..Len(usersFile)} \cup {"9"}

\* POST /admin/team/add
add_team_member(c, raw) ==
    LET email == lower(strip(raw))
        users == Before(c).users
        user == get_user_by_email(users, email)
    IN /\ TeamFrame(c)
       /\ IF ~admin_ok(c)
          THEN UNCHANGED teamFile /\ Done("add_team_member", c, email, "admin_required")
          ELSE IF user = 0
          THEN UNCHANGED teamFile /\ Done("add_team_member", c, email, "user_not_found")
          ELSE IF in_team(teamFile, email)
          THEN UNCHANGED teamFile /\ Done("add_team_member", c, email, "already_in_team")
          ELSE /\ teamFile' = save_team_members(Append(teamFile, team_member(users[user], email)))
               /\ Done("add_team_member", c, email, "added")

\* POST /admin/team/<uid>/delete
delete_team_member(c, uid) ==
    /\ TeamFrame(c)
    /\ UNCHANGED lastOp
    /\ IF ~admin_ok(c)
       THEN UNCHANGED teamFile
       ELSE teamFile' = save_team_members(without(teamFile, "uid", uid))

\* users.csv as import_from_firebase.py exports it: a user document whose
\* e-mail is stored with a capital letter
ImportedUsers ==
    write_csv(<<[id |-> "docA", email |-> <<"B", "@", "c">>, name |-> <<"B">>, role |-> "member", googleChatWebhookUrl |-> ""]>>,
              USERS_HEADERS)

\* users.csv is new or imported, the admin has logged in on one client, and
\* there is no roster yet
InitTeam ==
    /\ issuesFile = << >>
    /\ usersFile \in {login_users(<< >>, AdminEmail), login_users(ImportedUsers, AdminEmail)}
    /\ commentsFile = [i \in IssueIds |-> << >>]
    /\ historyFile = [i \in IssueIds |-> << >>]
    /\ attachmentsFile = [i \in IssueIds |-> << >>]
    /\ filesDir = [i \in IssueIds |-> {}]
    /\ hospitalsFile = << >>
    /\ InitAdmin
    /\ session = [c \in Clients |->
                    IF c = "c1"
                    THEN [logged |-> TRUE, user_id |-> login_user(usersFile, AdminEmail).id, user_email |-> AdminEmail,
                          user_name |-> <<"a">>, user_role |-> "admin"]
                    ELSE NoSession]
    /\ clock = 1
    /\ lastOp = NoOp
    /\ pc = [p \in Procs |-> "idle"]
    /\ loc = [p \in Procs |-> NoLocal]

NextTeam ==
    \/ \E c \in Clients, raw \in LoginEmails : login(c, raw)
    \/ \E c \in Clients, raw \in TeamEmails : add_team_member(c, raw)
    \/ \E c \in Clients, uid \in TeamUids : delete_team_member(c, uid)

\* the team roster of the admin panel, and users logging in
SpecTeam == InitTeam /\ [][NextTeam]_vars

\* ---------------------------------------------------------------- dashboard
\* the instant n in hours since midnight of day 0: two instants a day
instant_hours(n) == 12 * n

\* datetime(now.year, now.month, now.day) and strftime('%Y-%m-%d'): the
\* calendar day of an instant (dates sort as their day numbers do)
day_of(n) == instant_hours(n) \div 24

\* (t2 - t1).days: the whole days of a difference, rounded down
timedelta_days(t1, t2) == (instant_hours(t2) - instant_hours(t1)) \div 24

\* round(total / count, 1) in tenths; a tie goes to the even tenth
round1(total, count) ==
    LET q == (10 * total) \div count
        r == (10 * total) % count
    IN IF 2 * r < count THEN q
       ELSE IF 2 * r > count THEN q + 1
       ELSE IF q % 2 = 0 THEN q ELSE q + 1

\* issue.get(key, default)
issue_get(issue, key, default) == IF key \in DOMAIN issue THEN issue[key] ELSE default

\* counts.get(key, 0)
count_of(counts, key) == IF key \in dict_keys(counts) THEN dict_get(counts, key) ELSE 0

\* counts[key] = counts.get(key, 0) + 1
counted(counts, key) == dict_set(counts, key, count_of(counts, key) + 1)

\* the default keys of the two groupings
Other == <<"O", "t", "h", "e", "r">>

Unknown == <<"U", "n", "k", "n", "o", "w", "n">>

TrendDays == 30

\* "Parse dates": the instant of the field as a one-element list, the empty
\* list for None; an unparsable value in either field leaves both None
parsed_dates(issue) ==
    LET raises(f) == truthy(issue, f) /\ ~parses(issue[f])
        parsed(f) == IF truthy(issue, f) THEN <<fromisoformat(issue[f])>> ELSE << >>
    IN IF raises("time_started") \/ raises("dateClosed")
       THEN [time_started |-> << >>, time_closed |-> << >>]
       ELSE [time_started |-> parsed("time_started"), time_closed |-> parsed("dateClosed")]

\* trend_data[date][field] += 1 when the date is one of the keys
trend_counted(trend_data, date, field) ==
    IF date \in DOMAIN trend_data THEN [trend_data EXCEPT ![date][field] = @ + 1] ELSE trend_data

\* the body of "for issue in issues", on the running stats
dashboard_issue(stats, issue, today) ==
    LET is_closed == truthy(issue, "dateClosed")
        category == issue_get(issue, "category", Other)
        hospital == issue_get(issue, "hospital", Unknown)
        dates == parsed_dates(issue)
        started == dates.time_started # << >>
        closed == dates.time_closed # << >>
        time_started == dates.time_started[1]
        time_closed == dates.time_closed[1]
        one_week_ago == 24 * (today - 7)
        one_day_ago == 24 * (today - 1)
        created_today == started /\ instant_hours(time_started) >= one_day_ago
        after_closed == IF closed THEN trend_counted(stats.trend_data, day_of(time_closed), "closed")
                        ELSE stats.trend_data
    IN [stats EXCEPT
          !.closedTasks = IF is_closed THEN @ + 1 ELSE @,
          !.openTasks = IF is_closed THEN @ ELSE @ + 1,
          !.categoryCounts = counted(@, category),
          !.hospitalCounts = counted(@, hospital),
          !.closedThisWeek = IF closed /\ instant_hours(time_closed) >= one_week_ago THEN @ + 1 ELSE @,
          !.closedToday = IF closed /\ instant_hours(time_closed) >= one_day_ago THEN @ + 1 ELSE @,
          !.total_resolution_time = IF closed /\ started THEN @ + timedelta_days(time_started, time_closed) ELSE @,
          !.resolved_count = IF closed /\ started THEN @ + 1 ELSE @,
          !.createdToday = IF created_today THEN @ + 1 ELSE @,
          !.trend_data = IF created_today THEN trend_counted(after_closed, day_of(time_started), "created")
                         ELSE after_closed]

RECURSIVE dashboard_loop(_, _, _)
dashboard_loop(stats, all_issues, today) ==
    IF all_issues = << >> THEN stats
    ELSE dashboard_loop(dashboard_issue(stats, Head(all_issues), today), Tail(all_issues), today)

\* the stats dict the dashboard renders, avgResolutionTime in tenths of a day
\* and trendData as the list sorted by date (the keys are consecutive days)
dashboard_stats(all_issues, now) ==
    LET today == day_of(now)
        start == [totalTasks |-> Len(all_issues), openTasks |-> 0, closedTasks |-> 0, closedThisWeek |-> 0,
                  createdToday |-> 0, closedToday |-> 0, categoryCounts |-> << >>, hospitalCounts |-> << >>,
                  total_resolution_time |-> 0, resolved_count |-> 0,
                  trend_data |-> [date \in {today - (TrendDays - 1 - i) : i \in 0..(TrendDays - 1)} |->
                                     [created |-> 0, closed |-> 0]]]
        end == dashboard_loop(start, all_issues, today)
        first == CHOOSE d \in DOMAIN end.trend_data : \A e \in DOMAIN end.trend_data : d <= e
    IN [totalTasks |-> end.totalTasks, openTasks |-> end.openTasks, closedTasks |-> end.closedTasks,
        closedThisWeek |-> end.closedThisWeek, createdToday |-> end.createdToday, closedToday |-> end.closedToday,
        categoryCounts |-> end.categoryCounts, hospitalCounts |-> end.hospitalCounts,
        avgResolutionTime |-> IF end.resolved_count > 0 THEN round1(end.total_resolution_time, end.resolved_count)
                              ELSE 0,
        trendData |-> [i \in 1..Cardinality(DOMAIN end.trend_data) |->
                          [date |-> first + i - 1,
                           created |-> end.trend_data[first + i - 1].created,
                           closed |-> end.trend_data[first + i - 1].closed]]]

\* GET /dashboard
dashboard(c) ==
    LET sess == Before(c).sess
    IN /\ UnchangedUsers(c)
       /\ IF ~sess.logged THEN Done("dashboard_redirect", c, "", "login_redirect")
          ELSE Done("dashboard", c, "", dashboard_stats(get_all_issues(issuesFile), clock))
       /\ UNCHANGED <<issuesFile, commentsFile, historyFile, attachmentsFile, filesDir, hospitalsFile, teamFile, csvFile,
                      defaultHospitals, categoriesFile, CATEGORY_MAPPINGS, clock, pc, loc>>

\* the forms posted to /issues/create: the two of IssueForms and one that
\* leaves the hospital and the category blank
DashboardForms ==
    IssueForms \cup
    {[hospitalUnit |-> << >>, zone |-> "", priority |-> "Medium",
      mainCategory |-> << >>, subCategory |-> << >>, otherSubCategory |-> << >>,
      taskName |-> <<"z">>, description |-> << >>,
      mainOwner |-> <<"b">>, coOwner1 |-> << >>, coOwner2 |-> << >>, dueDate |-> ""]}

MaxDays == 2    \* days the dashboard's clock runs over

\* half a day passes
HalfDay ==
    /\ clock < 2 * MaxDays
    /\ clock' = clock + 1
    /\ UNCHANGED <<issuesFile, usersFile, commentsFile, historyFile, attachmentsFile, filesDir, hospitalsFile, teamFile, csvFile, defaultHospitals, categoriesFile, CATEGORY_MAPPINGS, session, lastOp, pc, loc>>

NextDashboard ==
    \/ \E c \in Clients, form \in DashboardForms : create_issue(c, form)
    \/ \E c \in Clients, issue_id \in UrlIds : close_issue(c, issue_id)
    \/ \E c \in Clients : dashboard(c)
    \/ HalfDay

\* issues created and closed over some days, and the dashboard of each moment
SpecDashboard == InitIssues /\ [][NextDashboard]_vars

\* ------------------------------------------------- the listing, answered
\* the ids save_issue gives the first forty issues
ListingIds == <<"1", "2", "3", "4", "5", "6", "7", "8", "9", "10", "11", "12", "13", "14", "15", "16", "17", "18", "19", "20", "21", "22", "23", "24", "25", "26", "27", "28", "29", "30", "31", "32", "33", "34", "35", "36", "37", "38", "39", "40">>

\* a third form: as the first of IssueForms, with the category "AB"
FormAB ==
    [hospitalUnit |-> <<"H", "1">>, zone |-> "Z", priority |-> "High",
     mainCategory |-> <<"A", "B">>, subCategory |-> << >>, otherSubCategory |-> << >>,
     taskName |-> <<"x">>, description |-> << >>,
     mainOwner |-> <<"b">>, coOwner1 |-> << >>, coOwner2 |-> << >>, dueDate |-> ""]

\* the forms with the categories "A", "A: B" and "AB"
ListingForms ==
    <<CHOOSE f \in IssueForms : f.subCategory = << >>, CHOOSE f \in IssueForms : f.subCategory # << >>, FormAB>>

\* the row of the k-th issue created, of n, from the k-th form in turn, the
\* first half of them at instant 1 and the rest at instant 2
created_row(k, n) ==
    set_field(new_issue(ListingForms[((k - 1) % Len(ListingForms)) + 1], <<"b">>, IF 2 * k <= n THEN 1 ELSE 2),
              "id", ListingIds[k])

\* issues.csv after n issues were created
created_file(n) == write_csv([k \in 1..n |-> created_row(k, n)], ISSUES_HEADERS)

\* issues.csv after four issues were created (the fourth as the first) and
\* the fourth was closed
closed_fourth == save_issue_rows(created_file(4), closed_issue(created_file(4)[4], 2), 0)

MaxListed == 30    \* issues in the largest issues.csv listed

ListingFiles == {created_file(0), created_file(3), closed_fourth, created_file(per_page), created_file(MaxListed)}

\* the query strings of GET /issues with a page number: the category and the
\* hospital filter on or off, the three other exact filters on or off
\* together, two sort orders
PageArgs ==
    {[my_tasks |-> FALSE, category |-> category, hospital |-> hospital,
      status |-> exact[1], zone |-> exact[2], priority |-> exact[3],
      search |-> << >>, sort_by |-> sort[1], sort_dir |-> sort[2], page |-> page] :
        category \in {<< >>, <<"A">>}, hospital \in {<< >>, <<"H", "1">>},
        exact \in {<<"", "", "">>, <<"Open", "Z", "High">>},
        sort \in {<<"dateLogged", "desc">>, <<"dueDate", "asc">>},
        page \in {-1, 0, 1, 2, 3}}

InitListing ==
    /\ issuesFile \in ListingFiles
    /\ usersFile = login_users(<< >>, BobEmail)
    /\ commentsFile = [i \in IssueIds |-> << >>]
    /\ historyFile = [i \in IssueIds |-> << >>]
    /\ attachmentsFile = [i \in IssueIds |-> << >>]
    /\ filesDir = [i \in IssueIds |-> {}]
    /\ hospitalsFile = << >>
    /\ InitAdmin
    /\ session = [c \in Clients |-> IF c = "c1" THEN BobSession ELSE NoSession]
    /\ clock = 2
    /\ lastOp = NoOp
    /\ pc = [p \in Procs |-> "idle"]
    /\ loc = [p \in Procs |-> NoLocal]

NextListing == \E c \in Clients, args \in PageArgs : issues_page(c, args)

\* pages of the issue listing, over issues.csv files of several sizes
SpecListing == InitListing /\ [][NextListing]_vars

\* ------------------------------------------------- a member and the admin panel
\* users.csv after the admin and then the member "b@c" have logged in
MemberUsers == login_users(login_users(<< >>, AdminEmail), BobEmail)

\* addresses typed into the login form by people who are not the admin
MemberLogins == {<<"b", "@", "c">>, <<"z", "@", "c">>, <<"e", "@", "x">>}

\* query strings of the listing the member asks for
MemberListArgs == {a \in ListArgs : a.sort_by = "dateLogged" /\ a.sort_dir = "desc" /\ active_filters(a) = 0}

\* the member is logged in on one client, nobody on the other; the admin has
\* left hospitals.csv with the default list, with one more hospital, or with a
\* default hospital deleted, and the roster empty or with the member on it
InitMember ==
    /\ issuesFile = << >>
    /\ usersFile = MemberUsers
    /\ commentsFile = [i \in IssueIds |-> << >>]
    /\ historyFile = [i \in IssueIds |-> << >>]
    /\ attachmentsFile = [i \in IssueIds |-> << >>]
    /\ filesDir = [i \in IssueIds |-> {}]
    /\ hospitalsFile \in {save_hospitals(DEFAULT_HOSPITALS),
                          save_hospitals(sort_hospitals(Append(DEFAULT_HOSPITALS, [name |-> <<"b">>, zone |-> << >>]))),
                          save_hospitals(without(DEFAULT_HOSPITALS, "name", <<"H", "1">>))}
    /\ teamFile \in {<< >>, save_team_members(<<team_member(login_user(MemberUsers, BobEmail), BobEmail)>>)}
    /\ csvFile = AbsentCsv
    /\ defaultHospitals = DEFAULT_HOSPITALS
    /\ \E file \in StartupFiles :
          /\ categoriesFile = load_categories(file).file
          /\ CATEGORY_MAPPINGS = load_categories(file).mem
    /\ session = [c \in Clients |->
                    IF c = "c1"
                    THEN [logged |-> TRUE, user_id |-> login_user(MemberUsers, BobEmail).id, user_email |-> BobEmail,
                          user_name |-> <<"b">>, user_role |-> "member"]
                    ELSE NoSession]
    /\ clock = 1
    /\ lastOp = NoOp
    /\ pc = [p \in Procs |-> "idle"]
    /\ loc = [p \in Procs |-> NoLocal]

\* the requests to the admin_required operations
AdminRequests ==
    \/ \E c \in Clients, raw \in RoleEmails, role \in Roles : add_user_role(c, raw, role)
    \/ \E c \in Clients, raw_name \in HospitalNames, raw_zone \in HospitalZones : add_hospital(c, raw_name, raw_zone)
    \/ \E c \in Clients, name \in UrlNames, raw_new_name \in HospitalNames, raw_new_zone \in HospitalZones :
          edit_hospital(c, name, raw_new_name, raw_new_zone)
    \/ \E c \in Clients, name \in UrlNames : delete_hospital(c, name)
    \/ \E c \in Clients, raw_text \in BulkTexts : bulk_add_hospitals(c, raw_text)
    \/ \E c \in Clients, raw_name \in CategoryNames : add_category_route(c, raw_name)
    \/ \E c \in Clients, url_category \in UrlCategories, raw_new_name \in CategoryNames :
          edit_category_route(c, url_category, raw_new_name)
    \/ \E c \in Clients, url_category \in UrlCategories : delete_category_route(c, url_category)
    \/ \E c \in Clients, url_category \in UrlCategories, raw_sub \in SubNames : add_subcategory_route(c, url_category, raw_sub)
    \/ \E c \in Clients, url_category \in UrlCategories, url_sub \in UrlSubs, raw_new_sub \in SubNames :
          edit_subcategory_route(c, url_category, url_sub, raw_new_sub)
    \/ \E c \in Clients, url_category \in UrlCategories, url_sub \in UrlSubs : delete_subcategory_route(c, url_category, url_sub)
    \/ \E c \in Clients, raw \in TeamEmails : add_team_member(c, raw)
    \/ \E c \in Clients, uid \in TeamUids : delete_team_member(c, uid)

NextMember ==
    \/ \E c \in Clients, raw \in MemberLogins : login(c, raw)
    \/ \E c \in Clients : logout(c)
    \/ \E c \in Clients, w \in WebhookUrls : save_profile(c, w)
    \/ \E c \in Clients, args \in MemberListArgs : issues(c, args)
    \/ AdminRequests

\* every request, the admin panel's included, from people who are not admins
SpecMember == InitMember /\ [][NextMember]_vars

\* ------------------------------------------------- attachments, added and deleted
MaxUploads == 3    \* files uploaded, over all issues

\* the attachment ids of the delete URLs: the stored ones and one that is not
UrlAttachmentIds(issue_id) == {attachmentsFile[issue_id][i].id : i \in 1..Len(attachmentsFile[issue_id])} \cup {"9"}

\* one issue has been created; the admin is logged in on one client, nobody on
\* the other
InitAttachments ==
    /\ issuesFile = created_file(1)
    /\ usersFile = login_users(<< >>, AdminEmail)
    /\ commentsFile = [i \in IssueIds |-> << >>]
    /\ historyFile = [i \in IssueIds |-> << >>]
    /\ attachmentsFile = [i \in IssueIds |-> << >>]
    /\ filesDir = [i \in IssueIds |-> {}]
    /\ hospitalsFile = << >>
    /\ InitAdmin
    /\ session = [c \in Clients |->
                    IF c = "c1"
                    THEN [logged |-> TRUE, user_id |-> "1", user_email |-> AdminEmail, user_name |-> <<"a">>, user_role |-> "admin"]
                    ELSE NoSession]
    /\ clock = 1
    /\ lastOp = NoOp
    /\ pc = [p \in Procs |-> "idle"]
    /\ loc = [p \in Procs |-> NoLocal]

NextAttachments ==
    \/ /\ stored_children(historyFile) < MaxUploads
       /\ \E c \in Clients, issue_id \in UrlIds, filename \in FileNames :
             upload_attachment_upto(c, issue_id, filename, MaxUploads)
    \/ \E c \in Clients, issue_id \in UrlIds : \E attachment_id \in UrlAttachmentIds(issue_id) :
          delete_attachment(c, issue_id, attachment_id)
    \/ Tick

\* files uploaded to an issue and attachments deleted from it
SpecAttachments == InitAttachments /\ [][NextAttachments]_vars

\* ------------------------------------------------- listings after an import
\* the forms posted to /issues/create: those of IssueForms and one whose
\* description is two lines of a textarea, which a browser posts with \r\n
SyncForms ==
    IssueForms \cup
    {[hospitalUnit |-> <<"H", "1">>, zone |-> "Z", priority |-> "High",
      mainCategory |-> <<"A">>, subCategory |-> << >>, otherSubCategory |-> << >>,
      taskName |-> <<"x">>, description |-> <<"a", "\r", "\n", "b">>,
      mainOwner |-> <<"b">>, coOwner1 |-> << >>, coOwner2 |-> << >>, dueDate |-> ""]}

NextSync ==
    \/ \E c \in Clients, args \in ListArgs : issues(c, args)
    \/ \E c \in Clients, form \in SyncForms : create_issue(c, form)
    \/ \E c \in Clients, issue_id \in UrlIds : close_issue(c, issue_id)
    \/ Tick

\* issues created, closed and listed after an import from Firebase
SpecSync == InitImported /\ [][NextSync]_vars

\* ------------------------------------------------- the codec, called alone
\* cells of the rows handed to write_csv: ids (numeric, not numeric, empty)
\* and texts (plain, with a comma, with a quote, with the line break a form
\* posts, empty)
CsvIds == {<<"1">>, <<"1", "0">>, <<"d">>, << >>}

CsvTexts == {<<"a">>, <<"a", ",">>, <<"\"">>, <<"a", "\r", "\n", "b">>, << >>}

\* the rows: every id, every text, a row without the text field, and a row
\* with a field no schema has
CsvRows ==
    {[k \in {<<"i", "d">>, <<"t">>} |-> IF k = <<"i", "d">> THEN id ELSE <<"a">>] : id \in CsvIds}
    \cup {[k \in {<<"i", "d">>, <<"t">>} |-> IF k = <<"i", "d">> THEN <<"1">> ELSE text] : text \in CsvTexts}
    \cup {[k \in {<<"i", "d">>} |-> <<"2">>]}
    \cup {[k \in {<<"i", "d">>, <<"t">>, <<"x">>} |-> IF k = <<"i", "d">> THEN <<"3">> ELSE <<"a">>]}

MaxRecords == 2    \* rows of one write

CsvData == UNION {[1..n -> CsvRows] : n \in 0..MaxRecords}

\* the schemas: id and text, the text alone, the id alone
CsvHeaders == {<< <<"i", "d">>, <<"t">> >>, << <<"t">> >>, << <<"i", "d">> >>}

CodecFrame ==
    UNCHANGED <<issuesFile, usersFile, commentsFile, historyFile, attachmentsFile, filesDir, hospitalsFile, teamFile,
                defaultHospitals, categoriesFile, CATEGORY_MAPPINGS, session, clock, pc, loc>>

\* write_csv(filepath, data, headers)
call_write_csv(data, headers) ==
    /\ csvFile' = write_csv_file(data, headers)
    /\ lastOp' = [op |-> "write_csv", client |-> "", arg |-> <<data, headers>>, result |-> "", resolver |-> ""]
    /\ CodecFrame

\* read_csv(filepath), of a file that is missing or was written by write_csv
call_read_csv ==
    /\ lastOp.op # "get_next_id"
    /\ UNCHANGED csvFile
    /\ lastOp' = [op |-> "read_csv", client |-> "", arg |-> lastOp.arg, result |-> read_csv_file(csvFile), resolver |-> ""]
    /\ CodecFrame

\* get_next_id(filepath)
call_get_next_id ==
    /\ lastOp.op # "read_csv"
    /\ UNCHANGED csvFile
    /\ lastOp' = [op |-> "get_next_id", client |-> "", arg |-> lastOp.arg, result |-> get_next_id_file(csvFile), resolver |-> ""]
    /\ CodecFrame

\* no file yet
InitCodec ==
    /\ issuesFile = << >>
    /\ usersFile = << >>
    /\ commentsFile = [i \in IssueIds |-> << >>]
    /\ historyFile = [i \in IssueIds |-> << >>]
    /\ attachmentsFile = [i \in IssueIds |-> << >>]
    /\ filesDir = [i \in IssueIds |-> {}]
    /\ hospitalsFile = << >>
    /\ InitAdmin
    /\ session = [c \in Clients |-> NoSession]
    /\ clock = 1
    /\ lastOp = NoOp
    /\ pc = [p \in Procs |-> "idle"]
    /\ loc = [p \in Procs |-> NoLocal]

NextCodec ==
    \/ \E data \in CsvData, headers \in CsvHeaders : call_write_csv(data, headers)
    \/ call_read_csv
    \/ call_get_next_id

\* write_csv, read_csv and get_next_id on one file
SpecCodec == InitCodec /\ [][NextCodec]_vars

\* ------------------------------------------------- the repository functions
\* the records handed to save_issue: a new issue (no id key), a stored issue
\* changed by its caller (closed, or touched by a comment), and a record whose
\* id is set by the caller
SaveIssueInputs ==
    {new_issue(form, <<"b">>, clock) : form \in IssueForms}
    \cup {closed_issue(issuesFile[k], clock) : k \in 1..Len(issuesFile)}
    \cup {touched_issue(issuesFile[k], <<"a">>, clock) : k \in 1..Len(issuesFile)}
    \cup {set_field(new_issue(form, <<"b">>, clock), "id", id) : form \in IssueForms, id \in {"3", "docB"}}

\* the dicts handed to create_or_update_user: a new user (no id key, the email
\* in the case its caller has it in), and a stored user changed by its caller
SaveUserInputs ==
    {[email |-> e, name |-> split_first(e, "@"), role |-> r] : e \in {BobEmail, <<"a", "@", "c">>, <<"A", "@", "c">>}, r \in Roles}
    \cup {[usersFile[k] EXCEPT !.role = r] : k \in 1..Len(usersFile), r \in Roles}
    \cup {[usersFile[k] EXCEPT !.googleChatWebhookUrl = "w"] : k \in 1..Len(usersFile)}

\* the parents whose child files the repository functions are called for
ParentIds == {"1", "docA"}

UnchangedRequests == UNCHANGED <<filesDir, hospitalsFile, teamFile, csvFile, defaultHospitals, categoriesFile, CATEGORY_MAPPINGS, session, clock, lastOp, pc, loc>>

\* Each repository function reads and writes the file of its own collection
\* only, so the calls on different collections commute; a run exercises one
\* collection: a call is made while the other collections are still empty.
no_children(files) == \A i \in DOMAIN files : files[i] = << >>

only_collection(name) ==
    /\ name # "issues" => issuesFile = << >>
    /\ name # "users" => usersFile = << >>
    /\ name # "comments" => no_children(commentsFile)
    /\ name # "history" => no_children(historyFile)
    /\ name # "attachments" => no_children(attachmentsFile)

\* every child file kept as one shared collection
child_rows_shared(files, issue_id) == files["1"] \o files["docA"]

\* read_csv of <dir>/<issue_id>.csv: the child records of this issue
child_rows(files, issue_id) == files[issue_id]

call_save_issue(issue) ==
    /\ only_collection("issues")
    /\ Len(issuesFile) < MaxIssues \/ (truthy(issue, "id") /\ first_index(issuesFile, "id", issue.id) # 0)
    /\ issuesFile' = save_issue(issuesFile, issue)
    /\ UNCHANGED <<usersFile, commentsFile, historyFile, attachmentsFile>>
    /\ UnchangedRequests

call_create_or_update_user(user_data) ==
    /\ only_collection("users")
    /\ usersFile' = create_or_update_user(usersFile, user_data)
    /\ UNCHANGED <<issuesFile, commentsFile, historyFile, attachmentsFile>>
    /\ UnchangedRequests

call_save_comment(issue_id, text) ==
    /\ only_collection("comments")
    /\ Len(commentsFile[issue_id]) < MaxComments + 1
    /\ commentsFile' = [commentsFile EXCEPT ![issue_id] =
           save_comment(child_rows(commentsFile, issue_id), [text |-> text, authorName |-> <<"b">>, authorEmail |-> BobEmail], clock)]
    /\ UNCHANGED <<issuesFile, usersFile, historyFile, attachmentsFile>>
    /\ UnchangedRequests

call_add_history(issue_id) ==
    /\ only_collection("history")
    /\ Len(historyFile[issue_id]) < MaxComments + 1
    /\ historyFile' = [historyFile EXCEPT ![issue_id] =
           add_history(child_rows(historyFile, issue_id), [user |-> <<"b">>, action |-> <<"created">>], clock)]
    /\ UNCHANGED <<issuesFile, usersFile, commentsFile, attachmentsFile>>
    /\ UnchangedRequests

call_add_attachment(issue_id) ==
    /\ only_collection("attachments")
    /\ Len(attachmentsFile[issue_id]) < MaxAttach + 1
    /\ attachmentsFile' = [attachmentsFile EXCEPT ![issue_id] =
           add_attachment(child_rows(attachmentsFile, issue_id), [fileName |-> "a.pdf", downloadURL |-> "a.pdf", uploadedBy |-> <<"b">>], clock)]
    /\ UNCHANGED <<issuesFile, usersFile, commentsFile, historyFile>>
    /\ UnchangedRequests

\* the write of delete_attachment: the record with this id removed
call_delete_attachment(issue_id, attachment_id) ==
    /\ only_collection("attachments")
    /\ first_index(attachmentsFile[issue_id], "id", attachment_id) # 0
    /\ attachmentsFile' = [attachmentsFile EXCEPT ![issue_id] =
           write_csv(without(@, "id", attachment_id), ATTACHMENTS_HEADERS)]
    /\ UNCHANGED <<issuesFile, usersFile, commentsFile, historyFile>>
    /\ UnchangedRequests

\* the data directory holds an imported issues.csv (possibly empty) and nothing else
InitStore ==
    /\ issuesFile \in {f \in ImportedFiles : Len(f) <= 1}
    /\ usersFile = << >>
    /\ commentsFile = [i \in IssueIds |-> << >>]
    /\ historyFile = [i \in IssueIds |-> << >>]
    /\ attachmentsFile = [i \in IssueIds |-> << >>]
    /\ filesDir = [i \in IssueIds |-> {}]
    /\ hospitalsFile = << >>
    /\ InitAdmin
    /\ session = [c \in Clients |-> NoSession]
    /\ clock = 1
    /\ lastOp = NoOp
    /\ pc = [p \in Procs |-> "idle"]
    /\ loc = [p \in Procs |-> NoLocal]

NextStore ==
    \/ \E issue \in SaveIssueInputs : call_save_issue(issue)
    \/ \E user_data \in SaveUserInputs : call_create_or_update_user(user_data)
    \/ \E issue_id \in ParentIds, text \in CommentTexts : call_save_comment(issue_id, text)
    \/ \E issue_id \in ParentIds : call_add_history(issue_id)
    \/ \E issue_id \in ParentIds : call_add_attachment(issue_id)
    \/ \E issue_id \in ParentIds, attachment_id \in {"1", "2", "3"} : call_delete_attachment(issue_id, attachment_id)

\* the repository functions, called one after the other with any of their inputs
SpecStore == InitStore /\ [][NextStore]_vars

\* the member is logged in and has created one issue at the first instant; two
\* requests are about to arrive
FirstForm == CHOOSE f \in IssueForms : \A g \in IssueForms : Len(f.taskName) <= Len(g.taskName)

InitConc ==
    /\ issuesFile = save_issue(<< >>, new_issue(FirstForm, ConcUser, 1))
    /\ usersFile = login_users(<< >>, BobEmail)
    /\ commentsFile = [i \in IssueIds |-> << >>]
    /\ historyFile = [i \in IssueIds |-> IF i = "1" THEN add_history(<< >>, [user |-> ConcUser, action |-> <<"created">> \o FirstForm.hospitalUnit], 1) ELSE << >>]
    /\ attachmentsFile = [i \in IssueIds |-> << >>]
    /\ filesDir = [i \in IssueIds |-> {}]
    /\ hospitalsFile = << >>
    /\ InitAdmin
    /\ session = [c \in Clients |-> IF c = "c1" THEN BobSession ELSE NoSession]
    /\ clock = 2
    /\ lastOp = NoOp
    /\ pc = [p \in Procs |-> "idle"]
    /\ loc = [p \in Procs |-> NoLocal]

\* the issue ids the concurrent requests name: the stored one and one that is not
ConcIds == {"1", "4"}

NextConc ==
    \/ \E p \in Procs, form \in IssueForms : create_read_issues(p, form)
    \/ \E p \in Procs : create_read_next_id(p)
    \/ \E p \in Procs : create_write_issues(p)
    \/ \E p \in Procs : history_read(p)
    \/ \E p \in Procs : history_read_next_id(p)
    \/ \E p \in Procs : history_write(p)
    \/ \E p \in Procs, issue_id \in ConcIds : close_read_issues(p, issue_id)
    \/ \E p \in Procs : save_read_issues(p)
    \/ \E p \in Procs : save_write_issues(p)
    \/ \E p \in Procs, issue_id \in ConcIds : comment_read(p, issue_id)
    \/ \E p \in Procs : comment_read_next_id(p)
    \/ \E p \in Procs : comment_write(p)
    \/ \E p \in Procs : touch_read_issues(p)

\* two requests interleaved at the grain of file reads and file writes
SpecConc == InitConc /\ [][NextConc]_vars

\* the identity and access resolver: logins, profile and role administration
SpecUsers == Init /\ [][NextUsers]_vars

\* GET /issues ran to its end for client c: logged in, and the sort did not raise
listing_completes(c, args) ==
    /\ issues(c, args)
    /\ Before(c).sess.logged
    /\ ~sort_raises(filtered_issues(issuesFile, args, Before(c).sess.user_name), args.sort_by)

\* C1: every stored issue with dateClosed set and a status other than "Closed"
\* is stored with status "Closed" after any completed issue listing, whatever
\* its filter, sort and page arguments.
C1_StatusSyncAfterListing ==
    [][\A c \in Clients, args \in ListArgs :
          listing_completes(c, args) =>
             \A k \in 1..Len(issuesFile) :
                needs_sync(issuesFile[k]) =>
                   \A j \in 1..Len(issuesFile') :
                      issuesFile'[j].id = issuesFile[k].id => issuesFile'[j].status = "Closed"]_vars

\* the ids stored in a file
ids_of(data) == {data[i].id : i \in 1..Len(data)}

\* the rows of a file with this id
rows_with_id(data, id) == {i \in 1..Len(data) : data[i].id = id}

status_matches_dateClosed(issue) == (issue.status = "Closed") <=> truthy(issue, "dateClosed")

\* C2: from an empty issues.csv, after any sequence of completed create_issue,
\* close_issue, add_comment and listing requests, every stored issue has status
\* "Closed" exactly when its dateClosed is non-empty; and the record a
\* create_issue stores has status "Open" and an empty dateClosed.
C2_StatusIffDateClosed ==
    /\ [](\A k \in 1..Len(issuesFile) : status_matches_dateClosed(issuesFile[k]))
    /\ [][\A c \in Clients, form \in IssueForms :
             (create_issue(c, form) /\ session[c].logged) =>
                /\ Len(issuesFile') = Len(issuesFile) + 1
                /\ issuesFile'[Len(issuesFile')].status = "Open"
                /\ issuesFile'[Len(issuesFile')].dateClosed = ""]_vars

\* C2 witness: one issue closed and one open, after a comment and a listing
C2_Witness ==
    /\ \E k \in 1..Len(issuesFile) : issuesFile[k].status = "Closed" /\ issuesFile[k].dateClosed = isoformat(2)
    /\ \E k \in 1..Len(issuesFile) : issuesFile[k].status = "Open" /\ issuesFile[k].dateClosed = ""
    /\ stored_children(commentsFile) > 0
    /\ hospitalsFile # << >>

\* C5: an issue stored with a non-empty dateClosed is stored, after every
\* further completed request (create_issue, close_issue, add_comment, listing,
\* upload_attachment), with the same dateClosed and status "Closed".
C5_NeverReopened ==
    [][\A k \in 1..Len(issuesFile) :
          truthy(issuesFile[k], "dateClosed") =>
             /\ rows_with_id(issuesFile', issuesFile[k].id) # {}
             /\ \A j \in rows_with_id(issuesFile', issuesFile[k].id) :
                   /\ issuesFile'[j].dateClosed = issuesFile[k].dateClosed
                   /\ issuesFile'[j].status = "Closed"]_vars

\* C5 witness: an issue closed at the first instant was commented on at the
\* second, after an upload, and is still closed as of the first instant
C5_Witness ==
    \E k \in 1..Len(issuesFile) :
       /\ issuesFile[k].dateClosed = isoformat(1)
       /\ issuesFile[k].status = "Closed"
       /\ issuesFile[k].lastModified = isoformat(2)
       /\ attachmentsFile[issuesFile[k].id] # << >>
       /\ commentsFile[issuesFile[k].id] # << >>

\* get_next_id of a file is above every numeric id stored in it, and the id it
\* gives is the id of no stored record
next_id_is_fresh(data) ==
    /\ \A i \in 1..Len(data) : (truthy(data[i], "id") /\ isdigit(data[i].id)) => get_next_id(data) > int(data[i].id)
    /\ str(get_next_id(data)) \notin ids_of(data)

\* a step that appends one record to the file gives it an id no stored record had
appended_id_is_new(data, data2) ==
    Len(data2) = Len(data) + 1 => data2[Len(data2)].id \notin ids_of(data)

\* C7: after any sequence of completed upserts on a collection (save_issue,
\* create_or_update_user, save_comment, add_history, add_attachment),
\* get_next_id of the collection is strictly greater than every numeric id in
\* it, and a newly created record never gets the id of a stored record.
C7_NextIdAboveEveryId ==
    /\ [](/\ next_id_is_fresh(issuesFile)
          /\ next_id_is_fresh(usersFile)
          /\ \A p \in IssueIds : /\ next_id_is_fresh(commentsFile[p])
                                  /\ next_id_is_fresh(historyFile[p])
                                  /\ next_id_is_fresh(attachmentsFile[p]))
    /\ [][/\ appended_id_is_new(issuesFile, issuesFile')
          /\ appended_id_is_new(usersFile, usersFile')
          /\ \A p \in IssueIds : /\ appended_id_is_new(commentsFile[p], commentsFile'[p])
                                  /\ appended_id_is_new(historyFile[p], historyFile'[p])
                                  /\ appended_id_is_new(attachmentsFile[p], attachmentsFile'[p])]_vars

\* C7 witness: an attachment file whose first record was deleted got a new
\* record, numbered above the one that is left
C7_Witness ==
    \E p \in ParentIds : Len(attachmentsFile[p]) = 2 /\ attachmentsFile[p][1].id = "2" /\ attachmentsFile[p][2].id = "3"

\* C10: save_issue of a record whose id is the id of a stored issue, and
\* create_or_update_user of a dict whose email is the email of a stored user,
\* leave exactly one record with that key, with the id the stored record had,
\* and leave the number of records unchanged.
C10_UpsertPreservesIdentity ==
    [][/\ \A issue \in SaveIssueInputs :
             (call_save_issue(issue) /\ truthy(issue, "id") /\ first_index(issuesFile, "id", issue.id) # 0) =>
                /\ Cardinality(rows_with_id(issuesFile', issue.id)) = 1
                /\ Len(issuesFile') = Len(issuesFile)
                /\ ids_of(issuesFile') = ids_of(issuesFile)
       /\ \A user_data \in SaveUserInputs :
             (call_create_or_update_user(user_data) /\ get_user_by_email(usersFile, user_data.email) # 0) =>
                /\ Cardinality({i \in 1..Len(usersFile') : usersFile'[i].email = user_data.email}) = 1
                /\ usersFile'[get_user_by_email(usersFile', user_data.email)].id
                      = usersFile[get_user_by_email(usersFile, user_data.email)].id
                /\ Len(usersFile') = Len(usersFile)
                /\ ids_of(usersFile') = ids_of(usersFile)]_vars

\* C10 witness: the issue created first was saved again after a second one was
\* created: it is stored once, under its id, behind the second
C10_Witness ==
    /\ Len(issuesFile) = 2
    /\ issuesFile[1].id = "2" /\ issuesFile[2].id = "1"
    /\ issuesFile[2].status = "Closed"

\* both concurrent requests have returned
both_finished == \A p \in Procs : pc[p] = "done"

\* C6: when a close_issue request and an add_comment request on the same issue
\* run concurrently, then once both have finished an issue for which
\* close_issue reported success has a non-empty dateClosed and status "Closed".
C6_NeverReopenedConcurrent ==
    \A p, q \in Procs :
       (/\ both_finished
        /\ loc[p].op = "close_issue" /\ loc[p].result = "ok"
        /\ loc[q].op = "add_comment" /\ loc[q].id = loc[p].id)
       => /\ rows_with_id(issuesFile, loc[p].id) # {}
          /\ \A k \in rows_with_id(issuesFile, loc[p].id) :
                truthy(issuesFile[k], "dateClosed") /\ issuesFile[k].status = "Closed"

\* the history entries of one file that record a creation
created_entries(rows) == {k \in 1..Len(rows) : startswith(rows[k].action, <<"created">>)}

\* C8: when two create_issue requests run concurrently, the two are assigned
\* different issue ids, and no history file holds the "created" entries of two
\* requests.
C8_UniqueIdsConcurrent ==
    \A p, q \in Procs :
       (/\ both_finished /\ p # q
        /\ loc[p].op = "create_issue" /\ loc[q].op = "create_issue")
       => /\ loc[p].id # loc[q].id
          /\ \A i \in IssueIds : Cardinality(created_entries(historyFile[i])) <= 1

\* the rows of issues.csv that hold the issue process p created: its task,
\* logged at the instant of the request
created_by(p) ==
    {k \in 1..Len(issuesFile) : /\ issuesFile[k].taskName = loc[p].rec.taskName
                                /\ issuesFile[k].dateLogged = loc[p].rec.dateLogged}

\* q wrote issues.csv from a snapshot that p's write had made stale
lost_update(p, q) ==
    /\ both_finished /\ p # q
    /\ loc[p].op = "create_issue" /\ loc[p].result = "ok"
    /\ loc[q].op = "create_issue" /\ loc[q].result = "ok"
    /\ loc[p].rec.taskName # loc[q].rec.taskName
    /\ loc[q].stale

\* C9: of two concurrent create_issue requests that both report success, when
\* the second writer rewrites issues.csv from the rows it read before the first
\* writer's write, the persisted file holds the second writer's issue and not
\* the first writer's.
C9_LostUpdate ==
    \A p, q \in Procs :
       lost_update(p, q) =>
          /\ created_by(q) # {}
          /\ \A k \in created_by(q) : issuesFile[k].id = loc[q].id
          /\ created_by(p) = {}
          /\ Len(issuesFile) = Len(loc[q].snap) + 1

\* C9 witness: both creators reported success and the first writer's issue is
\* in no row of the file
C9_Witness ==
    \E p, q \in Procs : lost_update(p, q) /\ created_by(p) = {} /\ created_by(q) # {}

\* the role stored for email ("" when no record has exactly this email)
stored_role(users, email) ==
    IF get_user_by_email(users, email) = 0 THEN "" ELSE users[get_user_by_email(users, email)].role

\* C3: a logged-in user whose stored role is "admin" and whose email is not in
\* ADMIN_USERS has, after the resolver pass of the next request, the session
\* role "member" and the stored role "member".
C3_DemotionOnRefresh ==
    [][\A c \in Clients :
          (/\ lastOp'.op = "profile" /\ lastOp'.client = c
           /\ session[c].logged
           /\ ~is_admin(session[c].user_email)
           /\ stored_role(usersFile, session[c].user_email) = "admin")
          => (/\ session'[c].user_role = "member"
              /\ stored_role(usersFile', session[c].user_email) = "member")]_vars

\* C4: a logged-in user whose email is in ADMIN_USERS and whose stored role is
\* not "admin" has, after the resolver pass of the next request, the stored
\* role "admin" and the session role "admin", in a record that is the only one
\* with that email and carries the id and email it had.
C4_PromotionOnRefresh ==
    [][\A c \in Clients :
          LET email == session[c].user_email
              u == get_user_by_email(usersFile, email)
              v == get_user_by_email(usersFile', email)
          IN (/\ lastOp'.op = "profile" /\ lastOp'.client = c
              /\ session[c].logged
              /\ is_admin(email)
              /\ u # 0
              /\ usersFile[u].role # "admin")
             => (/\ v # 0
                 /\ usersFile'[v].role = "admin"
                 /\ usersFile'[v].id = usersFile[u].id
                 /\ usersFile'[v].email = usersFile[u].email
                 /\ Cardinality({i \in 1..Len(usersFile') : usersFile'[i].email = email}) = 1
                 /\ Len(usersFile') = Len(usersFile)
                 /\ session'[c].user_role = "admin")]_vars

\* C4 witness: a request whose resolver pass wrote the promotion has completed
C4_Witness ==
    /\ lastOp.op = "profile" /\ lastOp.resolver = "promoted"
    /\ session[lastOp.client].user_role = "admin"
    /\ stored_role(usersFile, session[lastOp.client].user_email) = "admin"

\* C11: save_issue of a record whose id is populated and is the id of no stored
\* issue appends the record under the id get_next_id returns, not under the
\* id its caller supplied.
C11_UnmatchedKeyGetsNewId ==
    [][\A issue \in SaveIssueInputs :
          (call_save_issue(issue) /\ truthy(issue, "id") /\ first_index(issuesFile, "id", issue.id) = 0) =>
             /\ Len(issuesFile') = Len(issuesFile) + 1
             /\ issuesFile'[Len(issuesFile')].id = str(get_next_id(issuesFile))
             /\ ids_of(issuesFile') = ids_of(issuesFile) \cup {str(get_next_id(issuesFile))}]_vars

\* C12: from an empty users.csv, after any sequence of login, add_user_role,
\* save_profile and resolver passes, no two user records have emails that are
\* equal ignoring letter case.
C12_EmailUniqueIgnoringCase ==
    \A i, j \in 1..Len(usersFile) : i # j => lower(usersFile[i].email) # lower(usersFile[j].email)

\* C12 witness: two users are stored, and the admin's "A@c" typed into the role
\* form has changed the record stored as "a@c" instead of adding one
C12_Witness ==
    /\ Len(usersFile) = 2
    /\ lastOp.op = "add_user_role" /\ lastOp.result = "ok"
    /\ \E k \in 1..Len(usersFile) : usersFile[k].email = <<"a", "@", "c">> /\ usersFile[k].role = "member"

\* the stored users whose email is this one ignoring letter case
same_email_ignoring_case(users, email) == {k \in 1..Len(users) : lower(users[k].email) = lower(email)}

\* C13: get_user_by_email(e) finds the stored record whose email is e ignoring
\* letter case, so that create_or_update_user of a dict with such an email
\* updates that record and appends none.
C13_LookupIgnoresCase ==
    [][\A user_data \in SaveUserInputs :
          (call_create_or_update_user(user_data) /\ same_email_ignoring_case(usersFile, user_data.email) # {}) =>
             /\ get_user_by_email(usersFile, user_data.email) \in same_email_ignoring_case(usersFile, user_data.email)
             /\ Len(usersFile') = Len(usersFile)]_vars

\* C14: close_issue, add_comment and upload_attachment for an issue id that no
\* stored issue has leave issues.csv, the comments, history and attachment
\* files and the attachment directory as they were.
C14_NotFoundNoMutation ==
    [][\A c \in Clients, issue_id \in UrlIds :
          (/\ first_index(issuesFile, "id", issue_id) = 0
           /\ \/ close_issue(c, issue_id)
              \/ \E text \in CommentTexts : add_comment(c, issue_id, text)
              \/ \E filename \in FileNames : upload_attachment(c, issue_id, filename))
          => UNCHANGED <<issuesFile, commentsFile, historyFile, attachmentsFile, filesDir>>]_vars

\* C15: from a hospitals.csv with pairwise distinct names, after any sequence
\* of add_hospital, edit_hospital, delete_hospital and bulk_add_hospitals no two
\* hospital records have names that are equal ignoring case.
C15_HospitalNamesUnique ==
    \A i, j \in 1..Len(hospitalsFile) : i # j => lower(hospitalsFile[i].name) # lower(hospitalsFile[j].name)

\* C16: add_hospital by the admin with an empty name, or with a name a stored
\* hospital has ignoring case, leaves hospitals.csv exactly as it was.
C16_RejectedAddNoMutation ==
    [][\A c \in Clients, raw_name \in HospitalNames, raw_zone \in HospitalZones :
          (/\ add_hospital(c, raw_name, raw_zone)
           /\ admin_ok(c)
           /\ strip(raw_name) = << >> \/ name_taken(hospitalsFile, strip(raw_name)))
          => hospitalsFile' = hospitalsFile]_vars

\* the names of the non-blank lines of a bulk text that have one, in order
bulk_names(raw_text) ==
    LET lines == split(strip(raw_text), "\n")
        named(l) == strip(l) # << >> /\ line_name(strip(l)) # << >>
        kept == SelectSeq(lines, named)
    IN [i \in 1..Len(kept) |-> line_name(strip(kept[i]))]

\* the lines of a bulk text whose name no stored hospital and no earlier line has
new_lines(hospitals, raw_text) ==
    {i \in 1..Len(bulk_names(raw_text)) :
        /\ ~name_taken(hospitals, bulk_names(raw_text)[i])
        /\ \A j \in 1..(i - 1) : lower(bulk_names(raw_text)[j]) # lower(bulk_names(raw_text)[i])}

\* C17: bulk_add_hospitals adds one hospital for every line whose name no stored
\* hospital and no earlier line of the batch has (ignoring case) and counts it
\* as added, counts every other named line as skipped, and hospitals.csv grows
\* by exactly the added hospitals.
C17_BulkAddCounts ==
    [][\A c \in Clients, raw_text \in BulkTexts :
          (/\ lastOp'.op = "bulk_add_hospitals"
           /\ bulk_add_hospitals(c, raw_text) /\ admin_ok(c) /\ strip(raw_text) # << >>) =>
             LET new == new_lines(hospitalsFile, raw_text)
             IN /\ lastOp'.arg = <<Cardinality(new), Len(bulk_names(raw_text)) - Cardinality(new)>>
                /\ Len(hospitalsFile') = Len(hospitalsFile) + Cardinality(new)
                /\ {hospitalsFile'[i].name : i \in 1..Len(hospitalsFile')}
                      = {hospitalsFile[i].name : i \in 1..Len(hospitalsFile)}
                        \cup {bulk_names(raw_text)[i] : i \in new}]_vars

\* the number of non-blank lines of a bulk text
non_blank_lines(raw_text) ==
    LET non_blank(l) == strip(l) # << >> IN Len(SelectSeq(split(strip(raw_text), "\n"), non_blank))

\* C18: bulk_add_hospitals counts every non-blank line, also one whose name part
\* is empty: added + skipped is the number of non-blank input lines.
C18_BulkCountsEveryLine ==
    [][\A c \in Clients, raw_text \in BulkTexts :
          (/\ lastOp'.op = "bulk_add_hospitals"
           /\ bulk_add_hospitals(c, raw_text) /\ admin_ok(c) /\ strip(raw_text) # << >>) =>
             lastOp'.arg[1] + lastOp'.arg[2] = non_blank_lines(raw_text)]_vars

\* C19: update_category(old, new), called by the admin's edit request: when old
\* is a key of the mapping, new maps to exactly the subcategory list old had, old
\* is no longer a key unless new is old, and categories.json holds the mapping
\* that is in memory; when old is not a key, the function returns False and
\* neither the mapping nor categories.json changes.
C19_CategoryRename ==
    [][\A c \in Clients, url_category \in UrlCategories, raw_new_name \in CategoryNames :
          (/\ admin_ok(c)
           /\ strip(raw_new_name) # << >>
           /\ edit_category_route(c, url_category, raw_new_name)) =>
             LET old_name == unquote(url_category)
                 new_name == strip(raw_new_name)
             IN IF old_name \in dict_keys(CATEGORY_MAPPINGS)
                THEN /\ new_name \in dict_keys(CATEGORY_MAPPINGS')
                     /\ dict_get(CATEGORY_MAPPINGS', new_name) = dict_get(CATEGORY_MAPPINGS, old_name)
                     /\ new_name # old_name => old_name \notin dict_keys(CATEGORY_MAPPINGS')
                     /\ categoriesFile'.exists /\ categoriesFile'.loadable
                     /\ dict_eq(json_load(categoriesFile'.text), CATEGORY_MAPPINGS')
                ELSE /\ ~update_category(CATEGORY_MAPPINGS, categoriesFile, old_name, new_name).result
                     /\ UNCHANGED <<CATEGORY_MAPPINGS, categoriesFile>>]_vars

\* the default category A has been renamed to B, which has A's subcategories
C19_Witness ==
    /\ <<"A">> \notin dict_keys(CATEGORY_MAPPINGS)
    /\ <<"B">> \in dict_keys(CATEGORY_MAPPINGS)
    /\ dict_get(CATEGORY_MAPPINGS, <<"B">>) = << <<"s">>, <<"O">> >>
    /\ dict_eq(json_load(categoriesFile.text), CATEGORY_MAPPINGS)

\* categories.json parses to the mapping that is in memory
persisted_equals_memory ==
    /\ categoriesFile.exists
    /\ categoriesFile.loadable
    /\ dict_eq(json_load(categoriesFile.text), CATEGORY_MAPPINGS)

\* the category is unknown
unknown_category(url_category) == unquote(url_category) \notin dict_keys(CATEGORY_MAPPINGS)

\* the category is known and has the subcategory
has_subcategory(url_category, sub) ==
    /\ ~unknown_category(url_category)
    /\ sub \in Range(dict_get(CATEGORY_MAPPINGS, unquote(url_category)))

\* an admin's category request that fails: unknown category, unknown
\* subcategory, or a subcategory the category already has
failing_category_request ==
    \E c \in Clients, url_category \in UrlCategories :
       /\ admin_ok(c)
       /\ \/ \E raw_new_name \in CategoryNames :
                unknown_category(url_category) /\ edit_category_route(c, url_category, raw_new_name)
          \/ unknown_category(url_category) /\ delete_category_route(c, url_category)
          \/ \E raw_sub \in SubNames :
                /\ unknown_category(url_category) \/ has_subcategory(url_category, strip(raw_sub))
                /\ add_subcategory_route(c, url_category, raw_sub)
          \/ \E url_sub \in UrlSubs, raw_new_sub \in SubNames :
                /\ ~has_subcategory(url_category, unquote(url_sub))
                /\ edit_subcategory_route(c, url_category, url_sub, raw_new_sub)
          \/ \E url_sub \in UrlSubs :
                /\ ~has_subcategory(url_category, unquote(url_sub))
                /\ delete_subcategory_route(c, url_category, url_sub)

\* C20: after a start on a loadable or missing categories.json, categories.json
\* holds the in-memory CATEGORY_MAPPINGS after every category and subcategory
\* operation, and an operation that fails (unknown category or subcategory,
\* duplicate subcategory) changes neither the mapping nor the file.
C20_SavedAfterEveryMutation ==
    /\ []persisted_equals_memory
    /\ [][failing_category_request => UNCHANGED <<CATEGORY_MAPPINGS, categoriesFile>>]_vars

\* a category was added and given a subcategory, or its subcategory was renamed,
\* and categories.json holds the result
C20_Witness ==
    /\ persisted_equals_memory
    /\ <<"B">> \in dict_keys(CATEGORY_MAPPINGS)
    /\ dict_get(CATEGORY_MAPPINGS, <<"B">>) = << <<"s">> >>

\* files2 is files with one record appended to the file of issue P, its id 1
\* plus the largest numeric id of P's records (1 when there is none), and the
\* files of all other issues as they were
child_added(files, files2, P) ==
    /\ Len(files2[P]) = Len(files[P]) + 1
    /\ SubSeq(files2[P], 1, Len(files[P])) = files[P]
    /\ files2[P][Len(files2[P])].id =
          str(IF numeric_ids(files[P]) = {} THEN 1 ELSE Max(numeric_ids(files[P])) + 1)
    /\ \A Q \in DOMAIN files : Q # P => files2[Q] = files[Q]

\* C21: save_comment, add_history and add_attachment for issue P give the new
\* record the id 1 plus the largest numeric id among P's own records of that
\* kind (1 if there are none), whatever the other issues hold, and leave the
\* child files of every other issue unchanged.
C21_ChildIdsPerParent ==
    [][\A P \in ParentIds :
          /\ (\E text \in CommentTexts : call_save_comment(P, text)) => child_added(commentsFile, commentsFile', P)
          /\ call_add_history(P) => child_added(historyFile, historyFile', P)
          /\ call_add_attachment(P) => child_added(attachmentsFile, attachmentsFile', P)]_vars

\* issue 1 has two comments and issue docA got its first one, numbered 1
C21_Witness ==
    /\ Len(commentsFile["1"]) = 2
    /\ Len(commentsFile["docA"]) = 1
    /\ commentsFile["docA"][1].id = "1"

\* index of the first user whose e-mail is this one ignoring case, 0 for none
user_record(users, email) ==
    IF \E i \in 1..Len(users) : lower(users[i].email) = lower(email)
    THEN CHOOSE i \in 1..Len(users) : lower(users[i].email) = lower(email)
                                     /\ \A j \in 1..(i - 1) : lower(users[j].email) # lower(email)
    ELSE 0

\* every roster entry's uid is the id of a user, and no two entries share an e-mail
roster_consistent ==
    /\ \A i \in 1..Len(teamFile) : \E k \in 1..Len(usersFile) : usersFile[k].id = teamFile[i].uid
    /\ \A i, j \in 1..Len(teamFile) : i # j => teamFile[i].email # teamFile[j].email

\* C22: add_team_member with an e-mail that is already in the roster, or that
\* no user record has, leaves team_members.csv unchanged; otherwise it appends
\* exactly one member whose uid is the id of the user with that e-mail; and
\* after any add_team_member and delete_team_member requests every roster
\* entry's uid is the id of a user and no two entries share an e-mail.
C22_TeamRosterConflicts ==
    /\ []roster_consistent
    /\ [][\A c \in Clients, raw \in TeamEmails :
             (admin_ok(c) /\ add_team_member(c, raw)) =>
                LET u == user_record(usersFile', strip(raw))
                IN IF u = 0 \/ \E i \in 1..Len(teamFile) : lower(teamFile[i].email) = lower(strip(raw))
                   THEN teamFile' = teamFile
                   ELSE /\ Len(teamFile') = Len(teamFile) + 1
                        /\ SubSeq(teamFile', 1, Len(teamFile)) = teamFile
                        /\ teamFile'[Len(teamFile')].uid = usersFile'[u].id]_vars

\* C23: close_issue on an issue whose dateClosed is non-empty leaves issues.csv
\* unchanged: the same records in the same order with the same dateClosed.
C23_CloseClosedIsNoOp ==
    [][\A c \in Clients, issue_id \in UrlIds :
          (/\ first_index(issuesFile, "id", issue_id) # 0
           /\ issuesFile[first_index(issuesFile, "id", issue_id)].dateClosed # ""
           /\ close_issue(c, issue_id))
          => issuesFile' = issuesFile]_vars

\* a logged-in client, at the second instant, has an issue closed at the first
\* instant in front of it
C23_Witness ==
    /\ clock = 2
    /\ \E c \in Clients : session[c].logged
    /\ \E k \in 1..Len(issuesFile) : issuesFile[k].dateClosed = isoformat(1) /\ issuesFile[k].id \in UrlIds

\* C24: the dateLogged create_issue stored for an issue is the dateLogged
\* stored for that issue after every later close_issue, add_comment and
\* listing (status-sync) request.
C24_DateLoggedImmutable ==
    [][\A k \in 1..Len(issuesFile) :
          /\ rows_with_id(issuesFile', issuesFile[k].id) # {}
          /\ \A j \in rows_with_id(issuesFile', issuesFile[k].id) :
                issuesFile'[j].dateLogged = issuesFile[k].dateLogged]_vars

\* an issue created at the first instant was commented on and closed at the
\* second, and still carries the first instant as its dateLogged
C24_Witness ==
    \E k \in 1..Len(issuesFile) :
       /\ issuesFile[k].dateLogged = isoformat(1)
       /\ issuesFile[k].dateClosed = isoformat(2)
       /\ issuesFile[k].lastModified = isoformat(2)
       /\ commentsFile[issuesFile[k].id] # << >>

\* the cells under field k of the rows written to a file with these headers
\* (none when the schema has no such field)
stored_cells(data, headers, k) ==
    IF k \notin Range(headers) THEN {}
    ELSE {IF k \in DOMAIN data[i] THEN data[i][k] ELSE << >> : i \in 1..Len(data)}

restricted(data, headers) ==
    [i \in 1..Len(data) |-> [k \in Range(headers) |-> IF k \in DOMAIN data[i] THEN data[i][k] ELSE << >>]]

\* C26: read_csv of what write_csv wrote returns the same rows in the same
\* order, restricted to the schema (fields outside it dropped, missing schema
\* fields empty); an empty write leaves a file that exists and reads back as
\* the empty list; an absent file reads as the empty list.
C26_CodecRoundTrip ==
    lastOp.op = "read_csv" =>
       IF ~csvFile.exists THEN lastOp.result = << >>
       ELSE lastOp.result = restricted(lastOp.arg[1], lastOp.arg[2])

\* the issues that have both a creation and a close timestamp
resolved_issues(rows) == {i \in 1..Len(rows) : truthy(rows[i], "dateLogged") /\ truthy(rows[i], "dateClosed")}

RECURSIVE span_sum(_, _)
\* the whole days from creation to close, summed over the issues S
span_sum(rows, S) ==
    IF S = {} THEN 0
    ELSE LET i == CHOOSE j \in S : TRUE
         IN timedelta_days(fromisoformat(rows[i].dateLogged), fromisoformat(rows[i].dateClosed))
            + span_sum(rows, S \ {i})

\* a logged-in client's dashboard request is answered in this step
dashboard_rendered(c) == Before(c).sess.logged /\ dashboard(c)

\* C27: the dashboard's avgResolutionTime is the mean, rounded to one decimal,
\* of the whole days between dateLogged and dateClosed, over exactly the
\* issues that have both timestamps.
C27_AvgResolutionTime ==
    [][\A c \in Clients :
          (resolved_issues(issuesFile) # {} /\ dashboard_rendered(c)) =>
             lastOp'.result.avgResolutionTime =
                round1(span_sum(issuesFile, resolved_issues(issuesFile)), Cardinality(resolved_issues(issuesFile)))]_vars

\* the issues whose field f is v
issues_with(rows, f, v) == {i \in 1..Len(rows) : rows[i][f] = v}

RECURSIVE sum_values(_)
\* the sum of a dict's values
sum_values(d) == IF d = << >> THEN 0 ELSE Head(d).value + sum_values(Tail(d))

\* C28: for every hospital name h, hospitalCounts[h] is the number of issues
\* whose hospitalUnit is h; issues with a blank hospitalUnit are counted under
\* "Unknown"; the counts sum to the number of issues.
C28_HospitalCounts ==
    [][\A c \in Clients :
          (issuesFile # << >> /\ dashboard_rendered(c)) =>
             LET counts == lastOp'.result.hospitalCounts
             IN /\ \A i \in 1..Len(issuesFile) :
                      issuesFile[i].hospitalUnit # << >> =>
                         count_of(counts, issuesFile[i].hospitalUnit)
                            = Cardinality(issues_with(issuesFile, "hospitalUnit", issuesFile[i].hospitalUnit))
                /\ count_of(counts, Unknown) = Cardinality(issues_with(issuesFile, "hospitalUnit", << >>))
                /\ sum_values(counts) = Len(issuesFile)]_vars

\* C29: for every non-blank category c, categoryCounts[c] is the number of
\* issues whose category is c; an issue stored with an empty category is
\* counted under "Other", never under the empty string.
C29_CategoryCounts ==
    [][\A c \in Clients :
          (issuesFile # << >> /\ dashboard_rendered(c)) =>
             LET counts == lastOp'.result.categoryCounts
             IN /\ \A i \in 1..Len(issuesFile) :
                      issuesFile[i].category # << >> =>
                         count_of(counts, issuesFile[i].category)
                            = Cardinality(issues_with(issuesFile, "category", issuesFile[i].category))
                /\ count_of(counts, Other) = Cardinality(issues_with(issuesFile, "category", << >>))
                /\ << >> \notin dict_keys(counts)]_vars

\* the issues whose timestamp f falls on the calendar day d
issues_on(rows, f, d) == {i \in 1..Len(rows) : truthy(rows[i], f) /\ day_of(fromisoformat(rows[i][f])) = d}

\* C30: trendData has exactly 30 entries, one for each of the 30 consecutive
\* dates ending today, in ascending order; the created count of a date is the
\* number of issues whose dateLogged falls on it and its closed count the
\* number of issues whose dateClosed falls on it.
C30_TrendSeries ==
    [][\A c \in Clients :
          dashboard_rendered(c) =>
             LET trend == lastOp'.result.trendData
             IN /\ Len(trend) = TrendDays
                /\ \A i \in 1..Len(trend) :
                      /\ trend[i].date = day_of(clock) - TrendDays + i
                      /\ trend[i].created = Cardinality(issues_on(issuesFile, "dateLogged", trend[i].date))
                      /\ trend[i].closed = Cardinality(issues_on(issuesFile, "dateClosed", trend[i].date))]_vars

\* the issue passes the category filter c and the exact filters of args
selected_by(i, args) ==
    /\ args.category # << >> =>
          \/ i.category = args.category
          \/ /\ Len(i.category) >= Len(args.category) + 2
             /\ SubSeq(i.category, 1, Len(args.category) + 2) = args.category \o <<":", " ">>
    /\ args.hospital # << >> => i.hospitalUnit = args.hospital
    /\ args.zone # "" => i.zone = args.zone
    /\ args.priority # "" => i.priority = args.priority
    /\ args.status # "" => i.status = args.status

\* the ids of the rows of a list
listed_ids(rows) == {rows[k].id : k \in 1..Len(rows)}

\* C31: the listing with category filter c returns exactly the issues whose
\* category is c or starts with c followed by ": "; the hospital, zone,
\* priority and status filters are exact matches and all of the supplied
\* filters must hold.
C31_CategoryFilter ==
    lastOp.op = "issues" =>
       LET selected == {k \in 1..Len(issuesFile) : selected_by(issuesFile[k], lastOp.arg)}
       IN /\ lastOp.result.pagination.total = Cardinality(selected)
          /\ listed_ids(lastOp.result.issues) \subseteq {issuesFile[k].id : k \in selected}
          /\ (lastOp.arg.page = 1 /\ Cardinality(selected) <= per_page) =>
                listed_ids(lastOp.result.issues) = {issuesFile[k].id : k \in selected}

\* the issues tagged "A", "A: B" and "AB" were listed with the category filter
\* "A" and the first two came back; a listing with the category filter and
\* the exact filters together came back with one issue
C31_Witness ==
    /\ lastOp.op = "issues"
    /\ lastOp.arg.category = <<"A">>
    /\ lastOp.arg.page = 1
    /\ {issuesFile[k].category : k \in 1..Len(issuesFile)} = {<<"A">>, <<"A", ":", " ", "B">>, <<"A", "B">>}
    /\ \/ /\ lastOp.arg.hospital = << >> /\ lastOp.arg.status = ""
          /\ Len(issuesFile) = 3
          /\ listed_ids(lastOp.result.issues) = {"1", "2"}
       \/ /\ lastOp.arg.hospital # << >> /\ lastOp.arg.status # ""
          /\ Len(issuesFile) = 4
          /\ listed_ids(lastOp.result.issues) = {"1"}

\* the rows the filters of args select
selected_rows(rows, args) == {k \in 1..Len(rows) : selected_by(rows[k], args)}

\* some selected issues hold a value that parses as a date under the sort
\* field and others one that does not
mixed_values(rows, args) ==
    /\ \E k \in selected_rows(rows, args) : parses(rows[k][args.sort_by])
    /\ \E k \in selected_rows(rows, args) : ~parses(rows[k][args.sort_by])

\* C32: a listing sorted by a field under which some selected issues hold a
\* value that parses as a date and others a value that does not (dueDate set
\* on one issue, empty on another) completes and counts every selected issue.
C32_SortToleratesMixed ==
    (lastOp.op \in {"issues", "issues_error"} /\ mixed_values(issuesFile, lastOp.arg)) =>
       /\ lastOp.op = "issues"
       /\ lastOp.result.pagination.total = Cardinality(selected_rows(issuesFile, lastOp.arg))

\* the selected issues in the order of the listing
sorted_selection(rows, args) == sorted_by(SelectSeq(rows, LAMBDA i : selected_by(i, args)), args.sort_by, args.sort_dir)

\* ceil(n / per_page)
page_count(n) == (n + per_page - 1) \div per_page

\* C33: with n selected issues, page p of 1..ceil(n/25) is the slice of the
\* sorted list from position 25(p-1)+1 to position min(25p, n): the pages are
\* consecutive, do not overlap, hold at most 25 issues each and together hold
\* every selected issue once.
C33_PaginationPartitions ==
    (lastOp.op = "issues" /\ lastOp.arg.page \in 1..page_count(lastOp.result.pagination.total)) =>
       LET all == sorted_selection(issuesFile, lastOp.arg)
           p == lastOp.arg.page
           last == IF per_page * p < Len(all) THEN per_page * p ELSE Len(all)
       IN /\ lastOp.result.pagination.total = Len(all)
          /\ Len(lastOp.result.issues) = last - per_page * (p - 1)
          /\ Len(lastOp.result.issues) \in 1..per_page
          /\ \A k \in 1..Len(lastOp.result.issues) : lastOp.result.issues[k].id = all[per_page * (p - 1) + k].id

\* thirty issues were listed: page 2 came back with exactly the last 5 of
\* them, or page 3 came back empty
C33_Witness ==
    /\ lastOp.op = "issues"
    /\ lastOp.result.pagination.total = 30
    /\ \/ lastOp.arg.page = 2 /\ Len(lastOp.result.issues) = 5
       \/ lastOp.arg.page = 3 /\ lastOp.result.issues = << >>

\* C34: for every page number p with p < 1 or p > ceil(n/25), the listing
\* returns an empty slice and no error.
C34_OutOfRangePagesEmpty ==
    (lastOp.op = "issues"
     /\ (lastOp.arg.page < 1 \/ lastOp.arg.page > page_count(lastOp.result.pagination.total))) =>
       lastOp.result.issues = << >>

\* the names of the hospitals of a collection
hospital_names(hospitals) == {hospitals[i].name : i \in 1..Len(hospitals)}

\* C35: after delete_hospital(name) completes, the next get_hospitals call
\* returns a collection that does not contain name and is exactly the
\* collection the delete persisted, whatever its size relative to the
\* default list.
C35_DeletedHospitalStaysDeleted ==
    [][\A c \in Clients :
          admin_ok(c) =>
             \A url_name \in UrlNames :
                delete_hospital(c, url_name) =>
                   /\ unquote(url_name) \notin hospital_names(hospitals_after_get(hospitalsFile', defaultHospitals'))
                   /\ hospitals_after_get(hospitalsFile', defaultHospitals') = hospitalsFile']_vars

\* every session is anonymous or of a user who is not in ADMIN_USERS and
\* whose stored role is "member"
members_only ==
    \A c \in Clients :
       session[c].logged =>
          /\ ~is_admin(session[c].user_email)
          /\ stored_role(usersFile, session[c].user_email) \in {"member", ""}
          /\ session[c].user_role = "member"

\* every user record of users keeps its role in users2
roles_kept(users, users2) ==
    \A i \in 1..Len(users) : \E j \in 1..Len(users2) : users2[j].id = users[i].id /\ users2[j].role = users[i].role

\* C36: while every session is a member's (not in ADMIN_USERS, stored role
\* "member"), no request changes the categories mapping, the hospitals
\* collection, the team roster or the role of a user record.
C36_AdminOnlyMutation ==
    [][members_only =>
          /\ UNCHANGED <<categoriesFile, CATEGORY_MAPPINGS, hospitalsFile, teamFile>>
          /\ roles_kept(usersFile, usersFile')]_vars

\* C37: update_category(old, new) leaves the subcategory list of every
\* category other than old unchanged and does not reduce the number of
\* categories, also when new is the name of another category.
C37_RenameTouchesOnlyRenamed ==
    [][\A c \in Clients, url_category \in UrlCategories, raw_new_name \in CategoryNames :
          (/\ admin_ok(c)
           /\ strip(raw_new_name) # << >>
           /\ unquote(url_category) \in dict_keys(CATEGORY_MAPPINGS)
           /\ edit_category_route(c, url_category, raw_new_name)) =>
             /\ Len(CATEGORY_MAPPINGS') >= Len(CATEGORY_MAPPINGS)
             /\ \A k \in dict_keys(CATEGORY_MAPPINGS) \ {unquote(url_category)} :
                   /\ k \in dict_keys(CATEGORY_MAPPINGS')
                   /\ dict_get(CATEGORY_MAPPINGS', k) = dict_get(CATEGORY_MAPPINGS, k)]_vars

\* C38: every attachment record of an issue names a file that exists in the
\* issue's file area, after any uploads and deletions, also when the same
\* file name was uploaded twice and one of the two records was deleted.
C38_AttachmentFilesConsistent ==
    \A issue_id \in IssueIds :
       \A k \in 1..Len(attachmentsFile[issue_id]) : attachmentsFile[issue_id][k].fileName \in filesDir[issue_id]

\* the rows of a list whose id is not in ids, in their order
rows_outside(rows, ids) == SelectSeq(rows, LAMBDA r : r.id \notin ids)

\* C39: a listing leaves issues.csv unchanged when no selected issue has
\* dateClosed set with a status other than "Closed"; when it rewrites the
\* file, the issue ids are the same, every field other than status of every
\* issue is the same, and only the corrected issues change position: they
\* move to the end.
C39_SyncChangesOnlyStatus ==
    [][\A c \in Clients :
          Before(c).sess.logged =>
             \A args \in ListArgs :
                listing_completes(c, args) =>
                   LET selected == filtered_issues(issuesFile, args, Before(c).sess.user_name)
                       corrected == {selected[k].id : k \in {j \in 1..Len(selected) : needs_sync(selected[j])}}
                   IN IF corrected = {}
                      THEN issuesFile' = issuesFile
                      ELSE /\ Len(issuesFile') = Len(issuesFile)
                           /\ listed_ids(issuesFile') = listed_ids(issuesFile)
                           /\ \A k \in 1..Len(issuesFile) : \E j \in 1..Len(issuesFile') :
                                 /\ issuesFile'[j].id = issuesFile[k].id
                                 /\ \A f \in DOMAIN issuesFile[k] \ {"status"} : issuesFile'[j][f] = issuesFile[k][f]
                                 /\ issuesFile'[j].status = IF issuesFile[k].id \in corrected THEN "Closed" ELSE issuesFile[k].status
                           /\ rows_outside(issuesFile', corrected) = rows_outside(issuesFile, corrected)
                           /\ \A j \in 1..Len(issuesFile') :
                                 issuesFile'[j].id \in corrected <=> j > Len(issuesFile) - Cardinality(corrected)]_vars

====
